---- MODULE Spec2Model ----
(***************************************************************************)
(* Model of the source-map injection subsystem of splunk-rum-cli:          *)
(*   - injectFile (sourcemaps/injectFile.ts) with the safe-overwrite       *)
(*     helpers of utils/filesystem.ts,                                     *)
(*   - discoverJsMapFilePath (sourcemaps/discoverJsMapFilePath.ts),        *)
(*   - computeSourceMapId (sourcemaps/computeSourceMapId.ts) and the       *)
(*     error translation of utils/userFriendlyErrors.ts,                   *)
(*   - runSourcemapInject and runSourcemapUpload (sourcemaps/index.ts)     *)
(*     with wasInjectAlreadyRun (sourcemaps/wasInjectAlreadyRun.ts).       *)
(*                                                                         *)
(* Strings are sequences of tokens.  A token is either one ordinary        *)
(* character or one of the fixed literals the code tests with startsWith   *)
(* ("M" is SNIPPET_PREFIX, "D" is SOURCE_MAPPING_URL_COMMENT_PREFIX,       *)
(* "W" is the text of SNIPPET_TEMPLATE between the prefix and the          *)
(* placeholder, which holds "window.sourceMapIds", "P" is the placeholder  *)
(* and "T" the template's tail).                                           *)
(***************************************************************************)
EXTENDS Integers, Sequences, FiniteSets, TLC

VARIABLES
  disk,                   \* path -> file content (a token sequence) or Absent
  eol,                    \* os.EOL of the platform the tool runs on
  call,                   \* the function that is running or has returned
  pc,                     \* position of the running call
  jsFilePath,             \* argument of the call
  sourceMapId,            \* argument of injectFile
  options,                \* argument of the call: [dryRun |-> BOOLEAN]
  lines,                  \* injectFile: const lines = []
  sourceMappingUrlIndex,  \* injectFile: let sourceMappingUrlIndex = -1
  existingSnippetIndex,   \* injectFile: let existingSnippetIndex = -1
  existingSnippet,        \* injectFile: let existingSnippet = ''
  written,                \* writeLinesToFile: number of outStream.write calls done
  allJsMapFilePaths,      \* argument of discoverJsMapFilePath
  sourceMappingUrlLine,   \* discoverJsMapFilePath: let sourceMappingUrlLine = null
  result,                 \* value returned by discoverJsMapFilePath
  before,                 \* history: the disk when the call started
  linesRead,              \* history: the lines injectFile got from readlines
  ops,                    \* history: file-system operations of the call
  log,                    \* history: logger levels used by the call
  prev,                   \* history: id of the call before, if it completed a real run
  thrown,                 \* the value the call has thrown, or NoError
  cause,                  \* history: the value a system call of the call threw
  sourceMapFilePath,      \* argument of computeSourceMapId
  hash,                   \* computeSourceMapId: the bytes hash.update was given
  offset,                 \* computeSourceMapId: position of the read stream
  sha,                    \* computeSourceMapId: const sha = hash.digest('hex')
  returned,               \* value returned by computeSourceMapId
  chunks,                 \* history: the chunks the read stream delivered
  rpc,                    \* position of runSourcemapInject
  jsFilePaths,            \* runSourcemapInject: the JavaScript files found, in order
  jsMapFilePaths,         \* runSourcemapInject: the map files found
  index,                  \* runSourcemapInject: position of the for-of loop
  injectedJsFilePaths,    \* runSourcemapInject: const injectedJsFilePaths = []
  toClean,                \* cleanupTemporaryFiles: temporary files still to remove
  treeBefore,             \* history: the disk when the run started
  runOps,                 \* history: <<operation, path>> of the run's finished calls
  prevRun,                \* history: how the run before ended, and its options
  leftover,               \* history: temporary file an interrupted run left behind
  dirOrder,               \* the order in which the directory lists its JavaScript files
  filters,                \* options.include and options.exclude of the command line
  upc,                    \* position of runSourcemapUpload
  success,                \* runSourcemapUpload: let success = 0
  failed,                 \* runSourcemapUpload: let failed = 0
  alreadyInjected,        \* runSourcemapUpload: what wasInjectAlreadyRun returned
  unreadable,             \* the files readFile failed on in wasInjectAlreadyRun
  uploaded                \* history: the uploads attempted, in order

args == <<jsFilePath, sourceMapId, options, allJsMapFilePaths>>
injectLocals == <<lines, sourceMappingUrlIndex, existingSnippetIndex,
                  existingSnippet, written>>
discoverLocals == <<sourceMappingUrlLine, result>>

errors == <<thrown, cause>>
\* what injectFile and discoverJsMapFilePath never touch while they run
hashLocals == <<sourceMapFilePath, hash, offset, sha, returned, chunks>>
runLocals == <<rpc, jsFilePaths, jsMapFilePaths, index, injectedJsFilePaths,
               toClean, treeBefore, runOps, prevRun, leftover, dirOrder, filters>>
uploadLocals == <<upc, success, failed, alreadyInjected, unreadable, uploaded>>
rest == <<errors, hashLocals, runLocals, uploadLocals>>

vars == <<disk, eol, call, pc, args, injectLocals, discoverLocals,
          before, linesRead, ops, log, prev, rest>>

----------------------------------------------------------------------------
(* Bounds of the model *)

MaxLines == 2

----------------------------------------------------------------------------
(* Strings *)

LF == "\n"
CR == "\r"
\* values that no string equals: a path without a file, JavaScript's null
Absent == <<"(absent)">>
Null == <<"(null)">>
\* no function, no value
None == "none"
\* no id: a source map id is a string
NoId == <<"(none)">>

SOURCE_MAPPING_URL_COMMENT_PREFIX == <<"D">>
SNIPPET_PREFIX == <<"M">>
SNIPPET_TEMPLATE == SNIPPET_PREFIX \o <<"W", "P", "T">>

\* String.prototype.startsWith
startsWith(s, prefix) ==
  /\ Len(s) >= Len(prefix)
  /\ SubSeq(s, 1, Len(prefix)) = prefix

RECURSIVE replaceFirst(_, _, _)
\* String.prototype.replace(pattern, replacement) with a string pattern:
\* the first occurrence only
replaceFirst(s, tok, repl) ==
  IF s = <<>> THEN <<>>
  ELSE IF Head(s) = tok THEN repl \o Tail(s)
  ELSE <<Head(s)>> \o replaceFirst(Tail(s), tok, repl)

getCodeSnippet(id) == replaceFirst(SNIPPET_TEMPLATE, "P", id)

RECURSIVE SplitLines(_, _, _)
\* node:readline with crlfDelay Infinity: a line ends at LF, at CR LF or at
\* a CR not followed by LF; what is left at the end of the stream is a line
\* when it is not empty
SplitLines(s, i, cur) ==
  IF i > Len(s) THEN (IF cur = <<>> THEN <<>> ELSE <<cur>>)
  ELSE IF s[i] = LF THEN <<cur>> \o SplitLines(s, i + 1, <<>>)
  ELSE IF s[i] = CR
    THEN IF i < Len(s) /\ s[i + 1] = LF
           THEN <<cur>> \o SplitLines(s, i + 2, <<>>)
           ELSE <<cur>> \o SplitLines(s, i + 1, <<>>)
  ELSE SplitLines(s, i + 1, Append(cur, s[i]))

\* mutant of readlines: empty lines are dropped and whitespace is trimmed
readlines_normalizing(stream) ==
  LET keep(l) == l # <<>> /\ l[1] # " " /\ l[Len(l)] # " "
  IN  SelectSeq(SplitLines(stream, 1, <<>>), keep)

readlines(stream) == SplitLines(stream, 1, <<>>)

----------------------------------------------------------------------------
(* node:path, POSIX flavour, on token sequences ("/" is the separator) *)

RECURSIVE LastSlash(_, _)
LastSlash(p, i) ==
  IF i = 0 THEN 0 ELSE IF p[i] = "/" THEN i ELSE LastSlash(p, i - 1)

\* path.dirname, for a path that does not end in a separator
dirname(p) ==
  LET i == LastSlash(p, Len(p))
  IN  IF i = 0 THEN <<".">>
      ELSE IF i = 1 THEN <<"/">>
      ELSE SubSeq(p, 1, i - 1)

\* path.basename, for a path that does not end in a separator
basename(p) == SubSeq(p, LastSlash(p, Len(p)) + 1, Len(p))

path_isAbsolute(p) == Len(p) > 0 /\ p[1] = "/"

RECURSIVE SplitPath(_, _, _)
\* the segments between the separators
SplitPath(p, i, cur) ==
  IF i > Len(p) THEN <<cur>>
  ELSE IF p[i] = "/" THEN <<cur>> \o SplitPath(p, i + 1, <<>>)
  ELSE SplitPath(p, i + 1, Append(cur, p[i]))

RECURSIVE normalizeString(_, _, _, _)
\* path.normalize's normalizeString: drop empty and "." segments, resolve ".."
normalizeString(segs, i, res, allowAboveRoot) ==
  IF i > Len(segs) THEN res
  ELSE LET seg == segs[i]
       IN  IF seg = <<>> \/ seg = <<".">>
             THEN normalizeString(segs, i + 1, res, allowAboveRoot)
           ELSE IF seg = <<".", ".">>
             THEN IF Len(res) > 0 /\ res[Len(res)] # <<".", ".">>
                    THEN normalizeString(segs, i + 1, SubSeq(res, 1, Len(res) - 1),
                                         allowAboveRoot)
                  ELSE IF allowAboveRoot
                    THEN normalizeString(segs, i + 1, Append(res, seg), allowAboveRoot)
                  ELSE normalizeString(segs, i + 1, res, allowAboveRoot)
           ELSE normalizeString(segs, i + 1, Append(res, seg), allowAboveRoot)

RECURSIVE JoinSegments(_)
JoinSegments(segs) ==
  IF segs = <<>> THEN <<>>
  ELSE IF Len(segs) = 1 THEN segs[1]
  ELSE segs[1] \o <<"/">> \o JoinSegments(Tail(segs))

\* path.normalize
path_normalize(p) ==
  IF p = <<>> THEN <<".">>
  ELSE LET isAbsolute == p[1] = "/"
           trailingSeparator == p[Len(p)] = "/"
           body == JoinSegments(normalizeString(SplitPath(p, 1, <<>>), 1, <<>>,
                                                ~isAbsolute))
       IN  IF body = <<>>
             THEN IF isAbsolute THEN <<"/">>
                  ELSE IF trailingSeparator THEN <<".", "/">> ELSE <<".">>
           ELSE (IF isAbsolute THEN <<"/">> ELSE <<>>) \o body
                \o (IF trailingSeparator THEN <<"/">> ELSE <<>>)

\* path.join(a, b): the non-empty arguments joined by "/", then normalized
path_join(a, b) ==
  IF a = <<>> /\ b = <<>> THEN <<".">>
  ELSE IF a = <<>> THEN path_normalize(b)
  ELSE IF b = <<>> THEN path_normalize(a)
  ELSE path_normalize(a \o <<"/">> \o b)

----------------------------------------------------------------------------
(* utils/filesystem.ts *)

TEMP_FILE_EXTENSION == <<".splunk.tmp">>

\* mutant of getTempFilePath: the temporary file is written where the map
\* file of d/b.js is
getTempFilePath_over_map(filePath) == <<"d", "/", "b", ".js", ".map">>

\* mutant of getTempFilePath: the lines are written to the file itself
getTempFilePath_in_place(filePath) == filePath

getTempFilePath(filePath) ==
  LET fileName == basename(filePath)
      tempFileName == <<".">> \o fileName \o TEMP_FILE_EXTENSION
  IN  path_join(dirname(filePath), tempFileName)

\* writeLinesToFile: the k-th outStream.write (k = 0, 1, ...) writes a line
\* when k is even and os.EOL when k is odd
WriteChunk(ls, k, osEol) ==
  IF k % 2 = 0 THEN ls[(k \div 2) + 1] ELSE osEol

WriteCount(ls) == 2 * Len(ls)

RECURSIVE Serialize(_, _)
\* everything writeLinesToFile writes for the given lines
Serialize(ls, osEol) ==
  IF ls = <<>> THEN <<>> ELSE Head(ls) \o osEol \o Serialize(Tail(ls), osEol)

----------------------------------------------------------------------------
(* utils/userFriendlyErrors.ts and the message tables of sourcemaps/utils.ts *)

\* a JavaScript value that can be thrown: isError is "instanceof Error", code
\* is "" when the value has no code, originalError holds at most one value
Thrown(isError, name, code, message, originalError) ==
  [isError |-> isError, name |-> name, code |-> code, message |-> message,
   originalError |-> originalError]

\* nothing was thrown
NoError == Thrown(FALSE, "none", "", "", <<>>)

\* the NodeJS.ErrnoException of a failed system call
ErrnoException(code) == Thrown(TRUE, "Error", code, code, <<>>)

\* new UserFriendlyError(originalError, userFriendlyMessage)
UserFriendlyError(originalError, userFriendlyMessage) ==
  Thrown(TRUE, "UserFriendlyError", "", userFriendlyMessage, <<originalError>>)

isErrnoException(err) == err.isError /\ err.code # ""

\* mutant of throwAsUserFriendlyErrnoException: every errno exception is wrapped
throwAsUserFriendlyErrnoException_any_code(err, messagesByErrCode) ==
  IF isErrnoException(err)
  THEN UserFriendlyError(err, IF err.code \in DOMAIN messagesByErrCode
                                THEN messagesByErrCode[err.code] ELSE "")
  ELSE err

\* the value the function throws; it has no other exit
throwAsUserFriendlyErrnoException(err, messagesByErrCode) ==
  IF isErrnoException(err) /\ err.code # "" /\ err.code \in DOMAIN messagesByErrCode
  THEN UserFriendlyError(err, messagesByErrCode[err.code])
  ELSE err

\* the message tables, a message being named by what it says
JsMapFileReadMessages ==
  [c \in {"ENOENT", "EACCES"} |->
     IF c = "ENOENT" THEN "source map file does not exist"
     ELSE "source map file: missing file permissions"]

JsFileReadMessages ==
  [c \in {"ENOENT", "EACCES"} |->
     IF c = "ENOENT" THEN "JavaScript file no longer exists"
     ELSE "JavaScript file: missing file permissions"]

throwJsMapFileReadError(err) ==
  throwAsUserFriendlyErrnoException(err, JsMapFileReadMessages)

throwJsFileReadError(err) ==
  throwAsUserFriendlyErrnoException(err, JsFileReadMessages)

JsFileOverwriteMessages ==
  [c \in {"EACCES"} |-> "failed to inject: missing permissions"]

\* mutant of throwJsFileOverwriteError: the table of throwJsFileReadError
throwJsFileOverwriteError_read_table(err) ==
  throwAsUserFriendlyErrnoException(err, JsFileReadMessages)

throwJsFileOverwriteError(err) ==
  throwAsUserFriendlyErrnoException(err, JsFileOverwriteMessages)

\* what opening or reading a file can throw: errno exceptions with and
\* without a message of their own in the tables, an Error without a code, and
\* a value with a code that is not an Error
ReadErrors ==
  {ErrnoException(c) : c \in {"ENOENT", "EACCES", "EMFILE", "EISDIR"}}
    \cup {Thrown(TRUE, "Error", "", "stream failed", <<>>),
          Thrown(FALSE, "Object", "ENOENT", "", <<>>)}

\* what creating, writing or renaming a file can throw
OverwriteErrors == {ErrnoException(c) : c \in {"EACCES", "ENOENT", "ENOSPC"}}

----------------------------------------------------------------------------
(* sourcemaps/injectFile.ts *)

\* mutant of IsDryRun: the flag is ignored
IsDryRun_ignored(opts) == FALSE

\* if (options.dryRun)
IsDryRun(opts) == opts.dryRun

RECURSIVE ScanLines_first(_, _, _)
\* mutant of ScanLines: an index variable keeps the first line that matches
ScanLines_first(ls, readlinesIndex, st) ==
  IF readlinesIndex >= Len(ls) THEN st
  ELSE LET line == ls[readlinesIndex + 1]
           st1 == IF /\ startsWith(line, SOURCE_MAPPING_URL_COMMENT_PREFIX)
                     /\ st.sourceMappingUrlIndex = -1
                    THEN [st EXCEPT !.sourceMappingUrlIndex = readlinesIndex]
                    ELSE st
           st2 == IF startsWith(line, SNIPPET_PREFIX) /\ st.existingSnippetIndex = -1
                    THEN [st1 EXCEPT !.existingSnippetIndex = readlinesIndex,
                                     !.existingSnippet = line]
                    ELSE st1
           st3 == [st2 EXCEPT !.lines = Append(@, line)]
       IN  ScanLines_first(ls, readlinesIndex + 1, st3)

RECURSIVE ScanLines(_, _, _)
\* the for-await loop over readlines: every line is pushed, and an index
\* variable is assigned at every line that matches its prefix
ScanLines(ls, readlinesIndex, st) ==
  IF readlinesIndex >= Len(ls) THEN st
  ELSE LET line == ls[readlinesIndex + 1]
           st1 == IF startsWith(line, SOURCE_MAPPING_URL_COMMENT_PREFIX)
                    THEN [st EXCEPT !.sourceMappingUrlIndex = readlinesIndex]
                    ELSE st
           st2 == IF startsWith(line, SNIPPET_PREFIX)
                    THEN [st1 EXCEPT !.existingSnippetIndex = readlinesIndex,
                                     !.existingSnippet = line]
                    ELSE st1
           st3 == [st2 EXCEPT !.lines = Append(@, line)]
       IN  ScanLines(ls, readlinesIndex + 1, st3)

ScanStart ==
  [lines |-> <<>>, sourceMappingUrlIndex |-> -1,
   existingSnippetIndex |-> -1, existingSnippet |-> <<>>]

\* mutant of AlreadyInjected: the file is rewritten whatever it holds
AlreadyInjected_never(existing, snippet) == FALSE

\* mutant of AlreadyInjected: a file that holds the snippet is rewritten
AlreadyInjected_inverted(existing, snippet) == existing # snippet

\* if (existingSnippet === snippet)
AlreadyInjected(existing, snippet) == existing = snippet

\* Array.prototype.splice(start, deleteCount, item)
splice(ls, start, deleteCount, item) ==
  SubSeq(ls, 1, start) \o <<item>> \o SubSeq(ls, start + deleteCount + 1, Len(ls))

\* mutant of InsertSnippet: an existing snippet is kept and a new one added
InsertSnippet_adding(ls, snippetIndex, urlIndex, snippet) ==
  IF urlIndex >= 0 THEN splice(ls, urlIndex, 0, snippet)
  ELSE Append(ls, snippet)

\* mutant of InsertSnippet: the snippet always goes to the end of the file
InsertSnippet_appending(ls, snippetIndex, urlIndex, snippet) ==
  IF snippetIndex >= 0 THEN splice(ls, snippetIndex, 1, snippet)
  ELSE Append(ls, snippet)

\* mutant of InsertSnippet: the sourceMappingURL comment is looked at first
InsertSnippet_url_first(ls, snippetIndex, urlIndex, snippet) ==
  IF urlIndex >= 0 THEN splice(ls, urlIndex, 0, snippet)
  ELSE IF snippetIndex >= 0 THEN splice(ls, snippetIndex, 1, snippet)
  ELSE Append(ls, snippet)

\* the if / else if / else that places the snippet
InsertSnippet(ls, snippetIndex, urlIndex, snippet) ==
  IF snippetIndex >= 0 THEN splice(ls, snippetIndex, 1, snippet)
  ELSE IF urlIndex >= 0 THEN splice(ls, urlIndex, 0, snippet)
  ELSE Append(ls, snippet)

----------------------------------------------------------------------------
(* The files and inputs of the model *)

JsFile == <<"d", "/", "b", ".js">>
Files == {JsFile, getTempFilePath(JsFile)}
Ids == {<<"a">>, <<"b">>}
EOLs == {<<LF>>, <<CR, LF>>}
Separators == {<<LF>>, <<CR, LF>>, <<CR>>}

\* the kinds of line a JavaScript file is made of: empty, code, code with
\* leading and trailing whitespace, a sourceMappingURL comment, the snippet of
\* either id, and a line with the snippet's prefix and other content
LineKinds ==
  {<<>>, <<"x">>, <<" ", "x", " ">>, <<"D", "x">>,
   getCodeSnippet(<<"a">>), getCodeSnippet(<<"b">>), <<"M", "x">>}

LineSeqs == UNION {[1..n -> LineKinds] : n \in 0..MaxLines}

RECURSIVE Raw(_, _, _)
\* a file whose lines are separated by sep, with or without a final separator
Raw(ls, sep, final) ==
  IF ls = <<>> THEN <<>>
  ELSE IF Len(ls) = 1 THEN ls[1] \o (IF final THEN sep ELSE <<>>)
  ELSE ls[1] \o sep \o Raw(Tail(ls), sep, final)

JsContents == {Raw(ls, sep, final) : ls \in LineSeqs, sep \in Separators,
                                     final \in BOOLEAN}

\* no --include and no --exclude: include is undefined, and readdirRecursive
\* takes its default; exclude is empty
NoFilters == [include |-> "**/*", exclude |-> {}]

InitCommon ==
  /\ eol \in EOLs
  /\ call = None
  /\ pc = "idle"
  /\ jsFilePath = JsFile
  /\ sourceMapId = NoId
  /\ options = [dryRun |-> FALSE]
  /\ allJsMapFilePaths = {}
  /\ lines = <<>>
  /\ sourceMappingUrlIndex = -1
  /\ existingSnippetIndex = -1
  /\ existingSnippet = <<>>
  /\ written = 0
  /\ sourceMappingUrlLine = Null
  /\ result = Null
  /\ before = disk
  /\ linesRead = <<>>
  /\ ops = {}
  /\ log = {}
  /\ prev = NoId
  /\ thrown = NoError
  /\ cause = NoError
  /\ sourceMapFilePath = Null
  /\ hash = <<>>
  /\ offset = 0
  /\ sha = <<>>
  /\ returned = NoId
  /\ chunks = <<>>
  /\ rpc = "idle"
  /\ jsFilePaths = <<>>
  /\ jsMapFilePaths = {}
  /\ index = 1
  /\ injectedJsFilePaths = <<>>
  /\ toClean = {}
  /\ treeBefore = disk
  /\ runOps = {}
  /\ prevRun = [ended |-> "none", dryRun |-> FALSE, tree |-> disk]
  /\ leftover = Null
  /\ upc = "idle"
  /\ success = 0
  /\ failed = 0
  /\ alreadyInjected = [result |-> FALSE, message |-> "", thrown |-> NoError,
                        read |-> <<>>]
  /\ unreadable = {}
  /\ uploaded = <<>>

Init ==
  /\ \E c \in JsContents :
       disk = [f \in Files |-> IF f = JsFile THEN c ELSE Absent]
  /\ InitCommon
  /\ dirOrder = <<>>
  /\ filters = NoFilters

\* what every call starts with
StartCall ==
  /\ before' = disk
  /\ lines' = <<>>
  /\ sourceMappingUrlIndex' = -1
  /\ existingSnippetIndex' = -1
  /\ existingSnippet' = <<>>
  /\ written' = 0
  /\ sourceMappingUrlLine' = Null
  /\ result' = Null
  /\ linesRead' = <<>>
  /\ ops' = {}
  /\ log' = {}

----------------------------------------------------------------------------
(* injectFile, one action per step between two awaits *)

\* injectFile(jsFilePath, sourceMapId, options) is called
InjectCall ==
  /\ pc \in {"idle", "done"}
  /\ \E id \in Ids, dry \in BOOLEAN :
       /\ sourceMapId' = id
       /\ options' = [dryRun |-> dry]
  /\ jsFilePath' = JsFile
  /\ prev' = IF call = "injectFile" /\ pc = "done" /\ ~options.dryRun
               THEN sourceMapId ELSE NoId
  /\ call' = "injectFile"
  /\ pc' = "inject"
  /\ StartCall
  /\ UNCHANGED rest
  /\ UNCHANGED <<disk, eol, allJsMapFilePaths>>

\* dry run: log and return
InjectDryRun ==
  /\ call = "injectFile" /\ pc = "inject"
  /\ IsDryRun(options)
  /\ log' = log \cup {"info"}
  /\ pc' = "done"
  /\ UNCHANGED rest
  /\ UNCHANGED <<disk, eol, call, args, injectLocals, discoverLocals,
                 before, linesRead, ops, prev>>

\* read the file into memory and record the significant line indexes
InjectRead ==
  /\ call = "injectFile" /\ pc = "inject"
  /\ ~IsDryRun(options)
  /\ disk[jsFilePath] # Absent
  /\ LET st == ScanLines(readlines(disk[jsFilePath]), 0, ScanStart)
     IN  /\ lines' = st.lines
         /\ linesRead' = st.lines
         /\ sourceMappingUrlIndex' = st.sourceMappingUrlIndex
         /\ existingSnippetIndex' = st.existingSnippetIndex
         /\ existingSnippet' = st.existingSnippet
  /\ ops' = ops \cup {"read"}
  /\ pc' = "scanned"
  /\ UNCHANGED rest
  /\ UNCHANGED <<disk, eol, call, args, written, discoverLocals, before,
                 log, prev>>

\* the snippet is already in the file: return
InjectNoWork ==
  /\ call = "injectFile" /\ pc = "scanned"
  /\ AlreadyInjected(existingSnippet, getCodeSnippet(sourceMapId))
  /\ log' = log \cup {"debug"}
  /\ pc' = "done"
  /\ UNCHANGED rest
  /\ UNCHANGED <<disk, eol, call, args, injectLocals, discoverLocals,
                 before, linesRead, ops, prev>>

\* place the snippet; overwriteFileContents starts: createWriteStream on the
\* temp path creates the file, or empties the one that is there
InjectInsert ==
  /\ call = "injectFile" /\ pc = "scanned"
  /\ ~AlreadyInjected(existingSnippet, getCodeSnippet(sourceMapId))
  /\ lines' = InsertSnippet(lines, existingSnippetIndex, sourceMappingUrlIndex,
                            getCodeSnippet(sourceMapId))
  /\ log' = log \cup {"debug"}
  /\ disk' = [disk EXCEPT ![getTempFilePath(jsFilePath)] = <<>>]
  /\ ops' = ops \cup {"create"}
  /\ written' = 0
  /\ pc' = "writing"
  /\ UNCHANGED rest
  /\ UNCHANGED <<eol, call, args, sourceMappingUrlIndex, existingSnippetIndex,
                 existingSnippet, discoverLocals, before, linesRead, prev>>

\* writeLinesToFile: one outStream.write reaches the temp file
InjectWrite ==
  /\ call = "injectFile" /\ pc = "writing"
  /\ written < WriteCount(lines)
  /\ disk' = [disk EXCEPT ![getTempFilePath(jsFilePath)] =
                             @ \o WriteChunk(lines, written, eol)]
  /\ written' = written + 1
  /\ ops' = ops \cup {"write"}
  /\ UNCHANGED rest
  /\ UNCHANGED <<eol, call, pc, args, lines, sourceMappingUrlIndex,
                 existingSnippetIndex, existingSnippet, discoverLocals,
                 before, linesRead, log, prev>>

\* outStream.end() and finished(outStream)
InjectEnd ==
  /\ call = "injectFile" /\ pc = "writing"
  /\ written = WriteCount(lines)
  /\ pc' = "renaming"
  /\ UNCHANGED rest
  /\ UNCHANGED <<disk, eol, call, args, injectLocals, discoverLocals,
                 before, linesRead, ops, log, prev>>

\* rename(tempFilePath, filePath)
InjectRename ==
  /\ call = "injectFile" /\ pc = "renaming"
  /\ LET tempFilePath == getTempFilePath(jsFilePath)
     IN  disk' = IF tempFilePath = jsFilePath THEN disk
                 ELSE [disk EXCEPT ![jsFilePath] = disk[tempFilePath],
                                   ![tempFilePath] = Absent]
  /\ ops' = ops \cup {"rename"}
  /\ pc' = "done"
  /\ UNCHANGED rest
  /\ UNCHANGED <<eol, call, args, injectLocals, discoverLocals, before,
                 linesRead, log, prev>>

\* the process is interrupted while injectFile is running, and it is gone
Interrupt ==
  /\ call = "injectFile"
  /\ pc \in {"inject", "scanned", "writing", "renaming"}
  /\ pc' = "crashed"
  /\ UNCHANGED rest
  /\ UNCHANGED <<disk, eol, call, args, injectLocals, discoverLocals,
                 before, linesRead, ops, log, prev>>

Next ==
  \/ InjectCall
  \/ InjectDryRun
  \/ InjectRead
  \/ InjectNoWork
  \/ InjectInsert
  \/ InjectWrite
  \/ InjectEnd
  \/ InjectRename
  \/ Interrupt

Spec == Init /\ [][Next]_vars

\* opening or reading the JavaScript file fails: the catch block throws
InjectReadFails ==
  /\ call = "injectFile" /\ pc = "inject"
  /\ ~IsDryRun(options)
  /\ \E e \in ReadErrors :
       /\ disk[jsFilePath] = Absent => e = ErrnoException("ENOENT")
       /\ cause' = e
       /\ thrown' = throwJsFileReadError(e)
  /\ ops' = ops \cup {"read failed"}
  /\ pc' = "thrown"
  /\ UNCHANGED <<disk, eol, call, args, injectLocals, discoverLocals, before,
                 linesRead, log, prev, hashLocals, runLocals, uploadLocals>>

\* overwriteFileContents fails, when the temporary file is opened, while it
\* is written or when it is renamed: the catch block throws, and what is on
\* the disk stays
InjectOverwriteFails ==
  /\ call = "injectFile"
  /\ \/ pc = "scanned" /\ ~AlreadyInjected(existingSnippet, getCodeSnippet(sourceMapId))
     \/ pc \in {"writing", "renaming"}
  /\ \E e \in OverwriteErrors :
       /\ cause' = e
       /\ thrown' = throwJsFileOverwriteError(e)
  /\ ops' = ops \cup {"overwrite failed"}
  /\ pc' = "thrown"
  /\ UNCHANGED <<disk, eol, call, args, injectLocals, discoverLocals, before,
                 linesRead, log, prev, hashLocals, runLocals, uploadLocals>>

NextInjectFails ==
  \/ Next
  \/ InjectReadFails
  \/ InjectOverwriteFails

\* injectFile with the failures of its reads and writes
SpecInjectFails == Init /\ [][NextInjectFails]_vars

----------------------------------------------------------------------------
(* sourcemaps/discoverJsMapFilePath.ts *)

\* String.prototype.slice(start)
slice(s, start) == SubSeq(s, start + 1, Len(s))

RECURSIVE trimStart(_)
trimStart(s) ==
  IF s # <<>> /\ Head(s) = " " THEN trimStart(Tail(s)) ELSE s

RECURSIVE trimEnd(_)
trimEnd(s) ==
  IF s # <<>> /\ s[Len(s)] = " " THEN trimEnd(SubSeq(s, 1, Len(s) - 1)) ELSE s

\* String.prototype.trim
trim(s) == trimEnd(trimStart(s))

\* mutant of HasConventionMatch: the sourceMappingURL comment is always read
HasConventionMatch_never(jsPath, all) == FALSE

\* allJsMapFilePaths.includes(`${jsFilePath}.map`)
HasConventionMatch(jsPath, all) == (jsPath \o <<".map">>) \in all

RECURSIVE FirstDirectiveLine_includes(_, _)
\* mutant of FirstDirectiveLine: a line that holds the prefix anywhere counts
FirstDirectiveLine_includes(ls, i) ==
  IF i > Len(ls) THEN Null
  ELSE IF \E k \in 1..Len(ls[i]) : ls[i][k] = "D" THEN ls[i]
  ELSE FirstDirectiveLine_includes(ls, i + 1)

RECURSIVE FirstDirectiveLine(_, _)
\* the for-await loop that breaks at the first line with the prefix
FirstDirectiveLine(ls, i) ==
  IF i > Len(ls) THEN Null
  ELSE IF startsWith(ls[i], SOURCE_MAPPING_URL_COMMENT_PREFIX) THEN ls[i]
  ELSE FirstDirectiveLine(ls, i + 1)

\* mutant of IsUnsupportedUrl: only URLs with a scheme are refused
IsUnsupportedUrl_scheme_only(url) ==
  \/ startsWith(url, <<"http:", "/", "/">>)
  \/ startsWith(url, <<"https:", "/", "/">>)
  \/ startsWith(url, <<"data:">>)

\* path.isAbsolute(url) || url.startsWith('http://') || ...
IsUnsupportedUrl(url) ==
  \/ path_isAbsolute(url)
  \/ startsWith(url, <<"http:", "/", "/">>)
  \/ startsWith(url, <<"https:", "/", "/">>)
  \/ startsWith(url, <<"data:">>)

\* mutant of ResolveRelative: the URL is taken relative to the working directory
ResolveRelative_cwd(jsPath, url) == path_normalize(url)

\* path.join(path.dirname(jsFilePath), url)
ResolveRelative(jsPath, url) == path_join(dirname(jsPath), url)

\* resolveSourceMappingUrlToFilePath: the value returned and the log levels used
resolveSourceMappingUrlToFilePath(line, jsPath, all) ==
  LET url == trim(slice(line, Len(SOURCE_MAPPING_URL_COMMENT_PREFIX)))
      matchingJsMapFilePath == ResolveRelative(jsPath, url)
  IN  IF IsUnsupportedUrl(url)
        THEN [result |-> Null, log |-> {"debug"}]
      ELSE IF matchingJsMapFilePath \notin all
        THEN [result |-> Null, log |-> {"debug", "warn"}]
      ELSE [result |-> matchingJsMapFilePath, log |-> {"debug"}]

MaxKnown == 2

MapName == <<"c", ".js", ".map">>

\* the values a sourceMappingURL comment carries in the model: relative
\* (plain, with "..", with ".", with whitespace around it, through a
\* directory and back), absolute, with a scheme, a data URL, and nothing
Urls ==
  {MapName,
   <<".", ".", "/">> \o MapName,
   <<".", "/">> \o MapName,
   <<" ">> \o MapName \o <<" ">>,
   <<"e", "/", ".", ".", "/">> \o MapName,
   <<"/">> \o MapName,
   <<"http:", "/", "/">> \o MapName,
   <<"https:", "/", "/">> \o MapName,
   <<"data:">> \o MapName,
   <<>>}

DiscoverLineKinds ==
  {<<"x">>, <<" ", "D">> \o MapName} \cup {<<"D">> \o u : u \in Urls}

DiscoverContents ==
  {Raw(ls, <<LF>>, TRUE) :
     ls \in UNION {[1..n -> DiscoverLineKinds] : n \in 0..MaxLines}}

\* the map files the directory scan may have found
KnownCandidates ==
  {<<"d", "/", "b", ".js", ".map">>,
   <<"d", "/", "c", ".js", ".map">>,
   <<"c", ".js", ".map">>,
   <<"d", "/", "e", "/", "c", ".js", ".map">>,
   <<"d", "/", "http:", "/", "c", ".js", ".map">>,
   <<"d", "/", "https:", "/", "c", ".js", ".map">>,
   <<"d", "/", "data:", "c", ".js", ".map">>}

KnownSets == {S \in SUBSET KnownCandidates : Cardinality(S) <= MaxKnown}

InitDiscover ==
  /\ \E c \in DiscoverContents :
       disk = [f \in Files |-> IF f = JsFile THEN c ELSE Absent]
  /\ InitCommon
  /\ dirOrder = <<>>
  /\ filters = NoFilters

\* discoverJsMapFilePath(jsFilePath, allJsMapFilePaths, options, logger) is called
DiscoverCall ==
  /\ pc = "idle"
  /\ allJsMapFilePaths' \in KnownSets
  /\ jsFilePath' = JsFile
  /\ call' = "discoverJsMapFilePath"
  /\ pc' = "discover"
  /\ prev' = NoId
  /\ StartCall
  /\ UNCHANGED rest
  /\ UNCHANGED <<disk, eol, sourceMapId, options>>

\* the file name with ".map" is a known map file: return it
DiscoverConvention ==
  /\ call = "discoverJsMapFilePath" /\ pc = "discover"
  /\ HasConventionMatch(jsFilePath, allJsMapFilePaths)
  /\ result' = jsFilePath \o <<".map">>
  /\ log' = log \cup {"debug"}
  /\ pc' = "done"
  /\ UNCHANGED rest
  /\ UNCHANGED <<disk, eol, call, args, injectLocals, sourceMappingUrlLine,
                 before, linesRead, ops, prev>>

\* read the file up to its first sourceMappingURL comment
DiscoverRead ==
  /\ call = "discoverJsMapFilePath" /\ pc = "discover"
  /\ ~HasConventionMatch(jsFilePath, allJsMapFilePaths)
  /\ disk[jsFilePath] # Absent
  /\ sourceMappingUrlLine' = FirstDirectiveLine(readlines(disk[jsFilePath]), 1)
  /\ ops' = ops \cup {"read"}
  /\ pc' = "resolve"
  /\ UNCHANGED rest
  /\ UNCHANGED <<disk, eol, call, args, injectLocals, result, before,
                 linesRead, log, prev>>

\* opening or reading the file fails: the catch block throws
DiscoverReadFails ==
  /\ call = "discoverJsMapFilePath" /\ pc = "discover"
  /\ ~HasConventionMatch(jsFilePath, allJsMapFilePaths)
  /\ \E e \in ReadErrors :
       /\ cause' = e
       /\ thrown' = throwJsFileReadError(e)
  /\ ops' = ops \cup {"read"}
  /\ pc' = "thrown"
  /\ UNCHANGED <<disk, eol, call, args, injectLocals, discoverLocals, before,
                 linesRead, log, prev, hashLocals, runLocals, uploadLocals>>

\* a comment was found: resolve it and return
DiscoverResolve ==
  /\ call = "discoverJsMapFilePath" /\ pc = "resolve"
  /\ sourceMappingUrlLine # Null
  /\ LET r == resolveSourceMappingUrlToFilePath(sourceMappingUrlLine, jsFilePath,
                                                allJsMapFilePaths)
     IN  /\ result' = r.result
         /\ log' = log \cup r.log
  /\ pc' = "done"
  /\ UNCHANGED rest
  /\ UNCHANGED <<disk, eol, call, args, injectLocals, sourceMappingUrlLine,
                 before, linesRead, ops, prev>>

\* no comment was found: return null
DiscoverNoDirective ==
  /\ call = "discoverJsMapFilePath" /\ pc = "resolve"
  /\ sourceMappingUrlLine = Null
  /\ result' = Null
  /\ log' = log \cup {"debug"}
  /\ pc' = "done"
  /\ UNCHANGED rest
  /\ UNCHANGED <<disk, eol, call, args, injectLocals, sourceMappingUrlLine,
                 before, linesRead, ops, prev>>

NextDiscover ==
  \/ DiscoverCall
  \/ DiscoverConvention
  \/ DiscoverRead
  \/ DiscoverReadFails
  \/ DiscoverResolve
  \/ DiscoverNoDirective

SpecDiscover == InitDiscover /\ [][NextDiscover]_vars

----------------------------------------------------------------------------
(* Properties of injectFile *)

\* the lines of a file, as node:readline delimits them
FileLines(content) == SplitLines(content, 1, <<>>)

IsMarkerLine(l) == Len(l) > 0 /\ l[1] = "M"
IsDirectiveLine(l) == Len(l) > 0 /\ l[1] = "D"
MarkerCount(ls) == Cardinality({i \in 1..Len(ls) : IsMarkerLine(ls[i])})
HasDirective(ls) == \E i \in 1..Len(ls) : IsDirectiveLine(ls[i])
LastDirective(ls) ==
  CHOOSE i \in 1..Len(ls) :
    /\ IsDirectiveLine(ls[i])
    /\ \A j \in (i + 1)..Len(ls) : ~IsDirectiveLine(ls[j])

TempFile == <<"d", "/", ".", "b", ".js", ".splunk.tmp">>
LinesBefore == FileLines(before[JsFile])
LinesAfter == FileLines(disk[JsFile])
NewSnippet == <<"M", "W">> \o sourceMapId \o <<"T">>

\* a call of injectFile that was no dry run has returned
Completed == call = "injectFile" /\ pc = "done" /\ ~options.dryRun
\* the call has renamed the temp file over the JavaScript file
Wrote == "rename" \in ops

InsertedAt(a, i, s) == SubSeq(a, 1, i - 1) \o <<s>> \o SubSeq(a, i, Len(a))

\* C1, as claimed: after every completed call that was no dry run, the file
\* holds at most one line that begins with the snippet prefix.
C1_AtMostOneMarker == Completed => MarkerCount(LinesAfter) <= 1

\* C1, amended: a completed call never adds a second marker line. A file with
\* no marker line has exactly one after the call, and a file with marker
\* lines has as many after the call as before it.
C1_NeverAddsMarker ==
  Completed =>
    MarkerCount(LinesAfter) =
      (IF MarkerCount(LinesBefore) = 0 THEN 1 ELSE MarkerCount(LinesBefore))

\* a re-run with another id has replaced the one marker line of the file
C1_Witness ==
  /\ Completed /\ Wrote
  /\ prev \notin {NoId, sourceMapId}
  /\ MarkerCount(LinesBefore) = 1
  /\ MarkerCount(LinesAfter) = 1
  /\ \E i \in 1..Len(LinesAfter) : LinesAfter[i] = NewSnippet

\* C2: in every state of an injectFile call, also after an interruption,
\* the JavaScript file holds its complete original content until the rename
\* and the complete rewritten content (every line followed by os.EOL) after it.
C2_OriginalOrRewritten ==
  call = "injectFile" =>
    /\ ~Wrote => disk[JsFile] = before[JsFile]
    /\ Wrote => disk[JsFile] = Serialize(lines, eol)

\* interrupted with a part of the lines in the temp file
C2_Witness ==
  /\ call = "injectFile" /\ pc = "crashed"
  /\ written > 0 /\ written < WriteCount(lines)
  /\ disk[TempFile] # Absent /\ disk[TempFile] # <<>>
  /\ disk[TempFile] # Serialize(lines, eol)
  /\ disk[JsFile] = before[JsFile]

\* C3: a completed run that follows a completed run with the same id makes
\* no file-system write (no temp file, no write, no rename) and leaves the
\* file as the first run left it.
C3_SecondRunNoWrite ==
  (Completed /\ prev = sourceMapId) =>
    /\ ops \cap {"create", "write", "rename"} = {}
    /\ disk = before

\* the second run with the same id has read the file and returned
C3_Witness ==
  /\ Completed /\ prev = sourceMapId
  /\ "read" \in ops
  /\ \E i \in 1..Len(LinesAfter) : LinesAfter[i] = NewSnippet

\* C4, as claimed: after a call that wrote, the marker is the last line when
\* the file had no sourceMappingURL line and is the line right before such a
\* line when it had one; the sourceMappingURL lines are as before.
C4_LastOrBeforeDirective ==
  (Completed /\ Wrote) =>
    /\ ~HasDirective(LinesBefore) => lines[Len(lines)] = NewSnippet
    /\ HasDirective(LinesBefore) =>
         \E i \in 1..(Len(lines) - 1) :
           lines[i] = NewSnippet /\ IsDirectiveLine(lines[i + 1])
    /\ \A l \in {LinesBefore[i] : i \in 1..Len(LinesBefore)} :
         IsDirectiveLine(l) => \E j \in 1..Len(lines) : lines[j] = l

\* C4, amended: the placement rules hold for a file that had no marker line.
\* Without a sourceMappingURL line the marker is appended; with one the marker
\* is inserted right before the last such line; no other line changes.
C4_PlacementWithoutMarker ==
  (Completed /\ Wrote /\ MarkerCount(LinesBefore) = 0) =>
    /\ disk[JsFile] = Serialize(lines, eol)
    /\ ~HasDirective(LinesBefore) => lines = Append(LinesBefore, NewSnippet)
    /\ HasDirective(LinesBefore) =>
         /\ lines = InsertedAt(LinesBefore, LastDirective(LinesBefore), NewSnippet)
         /\ lines[LastDirective(LinesBefore) + 1]
              = LinesBefore[LastDirective(LinesBefore)]

\* the marker went before the sourceMappingURL line that ends the file
C4_Witness ==
  /\ Completed /\ Wrote /\ MarkerCount(LinesBefore) = 0
  /\ Len(LinesBefore) >= 2
  /\ IsDirectiveLine(LinesBefore[Len(LinesBefore)])
  /\ lines[Len(lines) - 1] = NewSnippet

\* C5: a call on a file with a marker line writes when every marker line
\* differs from the new marker, and a call that writes replaces one marker
\* line in place: same length, the new marker at the index of a marker line
\* that differed, every other line as it was; also when the file has a
\* sourceMappingURL line.
C5_ReplaceInPlace ==
  (Completed /\ MarkerCount(LinesBefore) > 0) =>
    /\ (\A i \in 1..Len(LinesBefore) :
          IsMarkerLine(LinesBefore[i]) => LinesBefore[i] # NewSnippet) => Wrote
    /\ Wrote =>
         /\ Len(lines) = Len(LinesBefore)
         /\ \E i \in 1..Len(LinesBefore) :
              /\ IsMarkerLine(LinesBefore[i])
              /\ LinesBefore[i] # NewSnippet
              /\ lines = [LinesBefore EXCEPT ![i] = NewSnippet]

\* a marker that follows the sourceMappingURL line was replaced where it was
C5_Witness ==
  /\ Completed /\ Wrote
  /\ Len(LinesBefore) = 2
  /\ IsDirectiveLine(LinesBefore[1]) /\ IsMarkerLine(LinesBefore[2])
  /\ lines = <<LinesBefore[1], NewSnippet>>

\* C6: a dry run does no file-system operation (no read, no temp file, no
\* write, no rename) and leaves every file as it was.
C6_DryRunTouchesNothing ==
  (call = "injectFile" /\ options.dryRun) => (ops = {} /\ disk = before)

\* a dry run has returned on a file that a real run would have rewritten
C6_Witness ==
  /\ call = "injectFile" /\ pc = "done" /\ options.dryRun
  /\ "info" \in log
  /\ MarkerCount(LinesAfter) = 0

\* C7: the lines handed to overwriteFileContents are the lines of the file
\* with one marker line inserted or one marker line replaced; every other
\* line, empty or with whitespace around it, is there as it was.
C7_OneLineChanged ==
  (call = "injectFile" /\ (pc \in {"writing", "renaming"} \/ (pc = "done" /\ Wrote)))
    => \/ \E i \in 1..(Len(LinesBefore) + 1) :
            lines = InsertedAt(LinesBefore, i, NewSnippet)
       \/ \E i \in 1..Len(LinesBefore) :
            /\ IsMarkerLine(LinesBefore[i])
            /\ lines = [LinesBefore EXCEPT ![i] = NewSnippet]

\* an empty line and a line with whitespace around it are handed over
C7_Witness ==
  /\ call = "injectFile" /\ pc = "writing"
  /\ LinesBefore = <<<<>>, <<" ", "x", " ">>>>
  /\ lines = <<<<>>, <<" ", "x", " ">>, NewSnippet>>

----------------------------------------------------------------------------
(* Properties of discoverJsMapFilePath *)

JsMapFile == <<"d", "/", "b", ".js", ".map">>

\* discoverJsMapFilePath has returned
Discovered == call = "discoverJsMapFilePath" /\ pc = "done"

HasFirstDirective == HasDirective(FileLines(disk[JsFile]))

\* what follows the prefix in the first sourceMappingURL line of the file
FirstUrl ==
  LET ls == FileLines(disk[JsFile])
      i == CHOOSE k \in 1..Len(ls) :
             /\ IsDirectiveLine(ls[k])
             /\ \A j \in 1..(k - 1) : ~IsDirectiveLine(ls[j])
  IN  SubSeq(ls[i], 2, Len(ls[i]))

\* the URLs of the model that are absolute or begin with http://, https://, data:
UnsupportedUrls ==
  {<<"/", "c", ".js", ".map">>,
   <<"http:", "/", "/", "c", ".js", ".map">>,
   <<"https:", "/", "/", "c", ".js", ".map">>,
   <<"data:", "c", ".js", ".map">>}

\* the relative URLs of the model, each with the path it names from d/b.js
ResolvedFromJsDir ==
  [u \in {<<"c", ".js", ".map">>,
          <<".", ".", "/", "c", ".js", ".map">>,
          <<".", "/", "c", ".js", ".map">>,
          <<" ", "c", ".js", ".map", " ">>,
          <<"e", "/", ".", ".", "/", "c", ".js", ".map">>,
          <<>>} |->
     IF u = <<".", ".", "/", "c", ".js", ".map">> THEN <<"c", ".js", ".map">>
     ELSE IF u = <<>> THEN <<"d">>
     ELSE <<"d", "/", "c", ".js", ".map">>]

\* C8: when <jsPath>.map is a known map file, it is the value returned and
\* the JavaScript file is not read, whatever it holds; the file is read only
\* when <jsPath>.map is not known.
C8_ConventionFirst ==
  call = "discoverJsMapFilePath" =>
    /\ (pc = "done" /\ JsMapFile \in allJsMapFilePaths) =>
         (result = JsMapFile /\ ops = {})
    /\ "read" \in ops => JsMapFile \notin allJsMapFilePaths

\* the file names another known map file, and <jsPath>.map is returned
C8_Witness ==
  /\ Discovered
  /\ JsMapFile \in allJsMapFilePaths
  /\ <<"d", "/", "c", ".js", ".map">> \in allJsMapFilePaths
  /\ HasFirstDirective /\ FirstUrl = <<"c", ".js", ".map">>
  /\ result = JsMapFile

\* C9: without a convention match, a first sourceMappingURL line with an
\* absolute path or an http://, https:// or data: URL gives null.
C9_UnsupportedUrlIsNull ==
  (/\ Discovered
   /\ JsMapFile \notin allJsMapFilePaths
   /\ HasFirstDirective
   /\ FirstUrl \in UnsupportedUrls)
    => result = Null

\* null although the directory joined with the URL is a known map file
C9_Witness ==
  /\ Discovered
  /\ JsMapFile \notin allJsMapFilePaths
  /\ HasFirstDirective
  /\ \/ /\ FirstUrl = <<"/", "c", ".js", ".map">>
        /\ <<"d", "/", "c", ".js", ".map">> \in allJsMapFilePaths
     \/ /\ FirstUrl = <<"data:", "c", ".js", ".map">>
        /\ <<"d", "/", "data:", "c", ".js", ".map">> \in allJsMapFilePaths
  /\ result = Null

\* C10: without a convention match, a relative URL in the first
\* sourceMappingURL line is resolved against the directory of the JavaScript
\* file; the resolved path is returned if and only if it is a known map file,
\* and otherwise null is returned and a warning is logged. Later
\* sourceMappingURL lines play no part.
C10_RelativeUrlResolved ==
  (/\ Discovered
   /\ JsMapFile \notin allJsMapFilePaths
   /\ HasFirstDirective
   /\ FirstUrl \in DOMAIN ResolvedFromJsDir)
    => LET resolved == ResolvedFromJsDir[FirstUrl]
       IN  /\ resolved \in allJsMapFilePaths
             => (result = resolved /\ "warn" \notin log)
           /\ resolved \notin allJsMapFilePaths
             => (result = Null /\ "warn" \in log)

\* the first line leads above the directory to a known map file; the second
\* line names another known map file
C10_Witness ==
  /\ Discovered
  /\ allJsMapFilePaths = {<<"c", ".js", ".map">>, <<"d", "/", "c", ".js", ".map">>}
  /\ FileLines(disk[JsFile]) =
       << <<"D", ".", ".", "/", "c", ".js", ".map">>, <<"D", "c", ".js", ".map">> >>
  /\ result = <<"c", ".js", ".map">>

\* C11: when the file name with ".map" is not a known map file and no line
\* of the file begins with the sourceMappingURL prefix, a call whose reads
\* succeed returns null, logs neither a warning nor an error, and throws
\* nothing.
C11_SilentNull ==
  (/\ call = "discoverJsMapFilePath" /\ pc \in {"done", "thrown"}
   /\ cause = NoError
   /\ JsMapFile \notin allJsMapFilePaths
   /\ ~HasFirstDirective)
    => /\ pc = "done"
       /\ result = Null
       /\ thrown = NoError
       /\ log \cap {"warn", "error"} = {}

\* the only mention of the prefix is on an indented line, and the map file
\* that line names is known under another directory
C11_Witness ==
  /\ Discovered
  /\ allJsMapFilePaths = {<<"d", "/", "c", ".js", ".map">>}
  /\ FileLines(disk[JsFile]) = << <<"x">>, <<" ", "D", "c", ".js", ".map">> >>
  /\ result = Null
  /\ log = {"debug"}

----------------------------------------------------------------------------
(* sourcemaps/computeSourceMapId.ts *)

HexDigits ==
  <<"0", "1", "2", "3", "4", "5", "6", "7", "8", "9", "a", "b", "c", "d", "e", "f">>

\* the byte a token of a map file stands for
Byte(t) ==
  CASE t = "{" -> 123 [] t = "}" -> 125 [] t = "x" -> 120 [] t = "y" -> 121
    [] OTHER -> 63

RECURSIVE Mix(_, _)
Mix(data, h) ==
  IF data = <<>> THEN h
  ELSE Mix(Tail(data), (h * 33 + Byte(Head(data))) % 65536)

\* createHash('sha256') ... digest('hex'): 64 lowercase hexadecimal digits
\* that depend on every byte and on their order.  The digest function of the
\* model is a small mixing function in the place of SHA-256.
Sha256Hex(data) ==
  LET h == Mix(data, 5381)
  IN  [i \in 1..64 |-> HexDigits[(((h \div i) + h * i + i * i) % 16) + 1]]

\* mutant of hash_update: the hash keeps the last chunk only
hash_update_last(h, chunk) == chunk

\* hash.update(chunk)
hash_update(h, chunk) == h \o chunk

\* String.prototype.slice(start, end), 0 <= start <= end <= length
sliceTo(s, start, end) == SubSeq(s, start + 1, end)

\* mutant of shaToSourceMapId: the last 32 digits are used
shaToSourceMapId_tail(s) ==
  sliceTo(s, 32, 40) \o <<"-">> \o sliceTo(s, 40, 44) \o <<"-">>
    \o sliceTo(s, 44, 48) \o <<"-">> \o sliceTo(s, 48, 52) \o <<"-">>
    \o sliceTo(s, 52, 64)

\* [sha.slice(0, 8), sha.slice(8, 12), sha.slice(12, 16), sha.slice(16, 20),
\*  sha.slice(20, 32)].join('-')
shaToSourceMapId(s) ==
  sliceTo(s, 0, 8) \o <<"-">> \o sliceTo(s, 8, 12) \o <<"-">>
    \o sliceTo(s, 12, 16) \o <<"-">> \o sliceTo(s, 16, 20) \o <<"-">>
    \o sliceTo(s, 20, 32)

\* the map files of the model and what they hold
MapFiles == {JsMapFile, <<"d", "/", "c", ".js", ".map">>}

MapContents ==
  {<<>>, <<"{", "}">>, <<"{", "x", "}">>, <<"{", "y", "}">>,
   <<"{", "x", "y", "}">>, <<"{", "y", "x", "}">>}

InitHash ==
  /\ disk \in [MapFiles -> MapContents \cup {Absent}]
  /\ InitCommon
  /\ dirOrder = <<>>
  /\ filters = NoFilters

\* computeSourceMapId(sourceMapFilePath, options) is called: the hash and the
\* read stream are created
HashCall ==
  /\ pc = "idle"
  /\ sourceMapFilePath' \in MapFiles
  /\ call' = "computeSourceMapId"
  /\ pc' = "reading"
  /\ hash' = <<>>
  /\ offset' = 0
  /\ sha' = <<>>
  /\ returned' = NoId
  /\ chunks' = <<>>
  /\ thrown' = NoError
  /\ cause' = NoError
  /\ before' = disk
  /\ ops' = {}
  /\ log' = {}
  /\ UNCHANGED <<disk, eol, args, injectLocals, discoverLocals, linesRead, prev,
                 runLocals, uploadLocals>>

\* one turn of the for-await loop: the stream delivers the next chunk, of any
\* size, and the hash is given it
HashUpdate ==
  /\ call = "computeSourceMapId" /\ pc = "reading"
  /\ disk[sourceMapFilePath] # Absent
  /\ offset < Len(disk[sourceMapFilePath])
  /\ \E n \in 1..(Len(disk[sourceMapFilePath]) - offset) :
       LET chunk == SubSeq(disk[sourceMapFilePath], offset + 1, offset + n)
       IN  /\ hash' = hash_update(hash, chunk)
           /\ offset' = offset + n
           /\ chunks' = Append(chunks, chunk)
  /\ ops' = ops \cup {"read"}
  /\ UNCHANGED <<disk, eol, call, pc, args, injectLocals, discoverLocals,
                 before, linesRead, log, prev, errors, sourceMapFilePath, sha,
                 returned, runLocals, uploadLocals>>

\* the stream has ended: digest and return the id
HashDigest ==
  /\ call = "computeSourceMapId" /\ pc = "reading"
  /\ disk[sourceMapFilePath] # Absent
  /\ offset = Len(disk[sourceMapFilePath])
  /\ sha' = Sha256Hex(hash)
  /\ returned' = shaToSourceMapId(sha')
  /\ pc' = "done"
  /\ UNCHANGED <<disk, eol, call, args, injectLocals, discoverLocals, before,
                 linesRead, ops, log, prev, errors, sourceMapFilePath, hash,
                 offset, chunks, runLocals, uploadLocals>>

\* opening or reading the file fails (a file that does not exist fails with
\* ENOENT): the catch block throws
HashReadFails ==
  /\ call = "computeSourceMapId" /\ pc = "reading"
  /\ \E e \in ReadErrors :
       /\ disk[sourceMapFilePath] = Absent => e = ErrnoException("ENOENT")
       /\ cause' = e
       /\ thrown' = throwJsMapFileReadError(e)
  /\ ops' = ops \cup {"read"}
  /\ pc' = "thrown"
  /\ UNCHANGED <<disk, eol, call, args, injectLocals, discoverLocals, before,
                 linesRead, log, prev, hashLocals, runLocals, uploadLocals>>

NextHash ==
  \/ HashCall
  \/ HashUpdate
  \/ HashDigest
  \/ HashReadFails

SpecHash == InitHash /\ [][NextHash]_vars

----------------------------------------------------------------------------
(* Properties of computeSourceMapId *)

\* computeSourceMapId has returned
Hashed == call = "computeSourceMapId" /\ pc = "done"

\* C12: the id that computeSourceMapId returns has 36 characters: groups of
\* 8, 4, 4, 4 and 12 lowercase hexadecimal digits with a hyphen between two
\* groups; the groups are, in order, the first 32 digits of the 64-digit
\* digest, whose last 32 digits are not used.
C12_IdFormat ==
  Hashed =>
    LET hyphens == {9, 14, 19, 24}
        \* the i-th digit follows as many hyphens as groups end before it
        digits == [i \in 1..32 |->
                     returned[i + Cardinality({b \in {8, 12, 16, 20} : b < i})]]
    IN  /\ Len(sha) = 64
        /\ Len(returned) = 36
        /\ \A i \in hyphens : returned[i] = "-"
        /\ \A i \in (1..36) \ hyphens :
             \E k \in 1..16 : returned[i] = HexDigits[k]
        /\ digits = SubSeq(sha, 1, 32)

\* an id of a file with content, from a digest whose halves differ
C12_Witness ==
  /\ Hashed
  /\ disk[sourceMapFilePath] = <<"{", "x", "}">>
  /\ SubSeq(sha, 1, 32) # SubSeq(sha, 33, 64)
  /\ Len(returned) = 36

\* C13: the id is a function of the whole content of the map file: every
\* chunk is fed to the hash in file order, so that whatever chunks the stream
\* delivers the id is the one computed from the content in one piece (files
\* with the same content get the same id), and the call leaves the files as
\* they were.
C13_IdOfWholeContent ==
  Hashed =>
    /\ returned = shaToSourceMapId(Sha256Hex(disk[sourceMapFilePath]))
    /\ \A f \in MapFiles :
         disk[f] = disk[sourceMapFilePath]
           => returned = shaToSourceMapId(Sha256Hex(disk[f]))
    /\ disk = before
    /\ ops \subseteq {"read"}

\* a file of four bytes that came in three chunks, while a file with the same
\* bytes in another order has another id
C13_Witness ==
  /\ Hashed
  /\ disk[sourceMapFilePath] = <<"{", "x", "y", "}">>
  /\ Len(chunks) = 3
  /\ returned # shaToSourceMapId(Sha256Hex(<<"{", "y", "x", "}">>))

----------------------------------------------------------------------------
(* Read failures of computeSourceMapId and discoverJsMapFilePath *)

\* a JavaScript file with a sourceMappingURL comment or without one, and map
\* files that exist or do not
InitRead ==
  /\ \E c \in {<<"x", LF>>, <<"x", LF, "D", "c", ".js", ".map", LF>>} :
     \E m \in [MapFiles -> {<<"{", "x", "}">>, Absent}] :
       disk = [f \in Files \cup MapFiles |->
                 IF f = JsFile THEN c ELSE IF f \in MapFiles THEN m[f] ELSE Absent]
  /\ InitCommon
  /\ dirOrder = <<>>
  /\ filters = NoFilters

\* either function is called, once
SpecRead == InitRead /\ [][NextHash \/ NextDiscover]_vars

\* C14: a read failure always ends in a throw.  When the value the system
\* call threw is an errno exception whose code has an entry in the message
\* table of the function, a UserFriendlyError is thrown that carries the
\* message of the table and has that very value as its originalError; when the
\* code has no entry, or the value is not an errno exception, the value itself
\* is thrown again.  So computeSourceMapId and discoverJsMapFilePath surface
\* EACCES and ENOENT read failures as UserFriendlyError.
C14_FailureTranslated ==
  (call \in {"computeSourceMapId", "discoverJsMapFilePath"} /\ cause # NoError)
    => LET table == IF call = "computeSourceMapId"
                      THEN JsMapFileReadMessages ELSE JsFileReadMessages
       IN  /\ pc = "thrown"
           /\ thrown # NoError
           /\ IF cause.isError /\ cause.code \in DOMAIN table
                THEN /\ cause.code \in {"ENOENT", "EACCES"}
                     /\ thrown.name = "UserFriendlyError"
                     /\ thrown.message = table[cause.code]
                     /\ thrown.originalError = <<cause>>
                ELSE thrown = cause

\* discoverJsMapFilePath cannot open the JavaScript file for lack of
\* permissions
C14_Witness ==
  /\ call = "discoverJsMapFilePath" /\ pc = "thrown"
  /\ cause = ErrnoException("EACCES")
  /\ thrown = UserFriendlyError(ErrnoException("EACCES"),
                                "JavaScript file: missing file permissions")

----------------------------------------------------------------------------
(* readdirRecursive and cleanupTemporaryFiles of utils/filesystem.ts *)

\* String.prototype.endsWith
endsWith(s, suffix) ==
  Len(s) >= Len(suffix) /\ SubSeq(s, Len(s) - Len(suffix) + 1, Len(s)) = suffix

\* /\.(js|cjs|mjs)$/
isJsFilePath(filePath) ==
  \E ext \in {".js", ".cjs", ".mjs"} : endsWith(filePath, <<ext>>)

\* mutant of isJsMapFilePath: no path is taken for a map file
isJsMapFilePath_never(filePath) == FALSE

\* /\.(js|cjs|mjs)\.map$/
isJsMapFilePath(filePath) ==
  \E ext \in {".js", ".cjs", ".mjs"} : endsWith(filePath, <<ext, ".map">>)

DEFAULT_JS_MAP_GLOB_PATTERN == "**/*.{js,cjs,mjs}.map"

\* a segment of the path begins with a dot
HasDotSegment(partialPath) ==
  \E k \in 1..Len(partialPath) :
    partialPath[k] = "." /\ (k = 1 \/ partialPath[k - 1] = "/")

HasSegment(partialPath, name) ==
  \E k \in 1..Len(partialPath) :
    /\ partialPath[k] = name
    /\ k = 1 \/ partialPath[k - 1] = "/"
    /\ k = Len(partialPath) \/ partialPath[k + 1] = "/"

\* the patterns that the code and the user hand to glob, matched as glob matches them
\* when its dot option is not set: neither * nor ** matches a segment that
\* begins with a dot
GlobMatch(pattern, partialPath) ==
  CASE pattern = "**/*" -> ~HasDotSegment(partialPath)
    [] pattern = DEFAULT_JS_MAP_GLOB_PATTERN ->
         ~HasDotSegment(partialPath) /\ isJsMapFilePath(partialPath)
    [] pattern = "**/node_modules/**" -> HasSegment(partialPath, "node_modules")
    [] pattern = "**/*.js" ->
         ~HasDotSegment(partialPath) /\ endsWith(partialPath, <<".js">>)
    [] pattern = "**/*.map" ->
         ~HasDotSegment(partialPath) /\ endsWith(partialPath, <<".map">>)
    [] pattern = "**/b.js" ->
         partialPath = <<"b", ".js">> \/ endsWith(partialPath, <<"/", "b", ".js">>)
    [] OTHER -> FALSE

\* glob(include, { cwd, nodir: true, ignore }): the files under cwd, as paths
\* relative to it
glob(include, cwd, ignore, fs) ==
  {slice(f, Len(cwd) + 1) :
     f \in {g \in DOMAIN fs :
              /\ fs[g] # Absent
              /\ startsWith(g, cwd \o <<"/">>)
              /\ GlobMatch(include, slice(g, Len(cwd) + 1))
              /\ \A pattern \in ignore : ~GlobMatch(pattern, slice(g, Len(cwd) + 1))}}

\* readdirRecursive(dir, include, exclude) when the directory can be read
readdirRecursive(dir, include, exclude, fs) ==
  {path_join(dir, partialPath) :
     partialPath \in glob(include, dir, {"**/node_modules/**"} \cup exclude, fs)}

\* the paths that cleanupTemporaryFiles removes
TemporaryFiles(dir, fs) ==
  {f \in readdirRecursive(dir, "**/*", {}, fs) : endsWith(f, TEMP_FILE_EXTENSION)}

\* the message table of throwDirectoryReadErrorDuringInject
DirectoryReadMessages ==
  [c \in {"EACCES", "ENOENT", "ENOTDIR"} |->
     CASE c = "EACCES" -> "inject: missing permissions on the directory"
       [] c = "ENOENT" -> "inject: the directory does not exist"
       [] c = "ENOTDIR" -> "inject: the path is not a directory"]

\* mutant of throwDirectoryReadErrorDuringInject: the table of the file reads
throwDirectoryReadErrorDuringInject_file_table(err) ==
  throwAsUserFriendlyErrnoException(err, JsFileReadMessages)

throwDirectoryReadErrorDuringInject(err) ==
  throwAsUserFriendlyErrnoException(err, DirectoryReadMessages)

\* what readdir or glob can throw
DirectoryReadErrors ==
  {ErrnoException(c) : c \in {"ENOENT", "EACCES", "ENOTDIR", "EMFILE"}}
    \cup {Thrown(TRUE, "Error", "", "glob failed", <<>>)}

----------------------------------------------------------------------------
(* runSourcemapInject of sourcemaps/index.ts *)

\* options.directory and the files under it
Directory == <<"d">>
JsFile2 == <<"d", "/", "c", ".js">>
OtherTempFile == <<"d", "/", "x", ".splunk.tmp">>
RunFiles ==
  {JsFile, JsFile2, JsMapFile, getTempFilePath(JsFile),
   getTempFilePath(JsFile2), OtherTempFile}

\* the id of a map file with the given content
IdOf(content) == shaToSourceMapId(Sha256Hex(content))

\* the ways to put a set of paths in an order
Orders(S) ==
  {o \in [1..Cardinality(S) -> S] : \A i, j \in DOMAIN o : i # j => o[i] # o[j]}

\* d/b.js: code only; injected for a map file {x}; two lines with the prefix
\* of the snippet.  d/c.js: code only; code with a comment that names b.js.map.
\* d/b.js.map: none, {x} or {y}.  A temporary file of b.js left by an
\* interrupted run, and a file x.splunk.tmp, are there or not.  The directory
\* lists the two JavaScript files in either order.
InitRunWith(F) ==
  /\ \E b \in {<<"x", LF>>,
               <<"x", LF>> \o getCodeSnippet(IdOf(<<"{", "x", "}">>)) \o <<LF>>,
               <<"M", "x", LF, "M", "x", LF>>},
        c \in {<<"x", LF>>, <<"x", LF, "D", "b", ".js", ".map", LF>>},
        m \in [{JsMapFile} -> {Absent, <<"{", "x", "}">>, <<"{", "y", "}">>}],
        t \in [{getTempFilePath(JsFile), OtherTempFile} -> {Absent, <<"x">>}] :
       disk = [f \in RunFiles |->
                 IF f = JsFile THEN b
                 ELSE IF f = JsFile2 THEN c
                 ELSE IF f \in DOMAIN m THEN m[f]
                 ELSE IF f \in DOMAIN t THEN t[f]
                 ELSE Absent]
  /\ InitCommon
  /\ eol = <<LF>>
  /\ dirOrder \in Orders({JsFile, JsFile2})
  /\ filters \in F

\* a run without --include and --exclude
InitRun == InitRunWith({NoFilters})

\* runSourcemapInject(options, ctx) is called in a new process.  The model
\* follows a first run and, when it has completed or was interrupted, the run
\* after it.
RunCall ==
  /\ \/ rpc = "idle"
     \/ prevRun.ended = "none" /\ (rpc = "done" \/ pc = "crashed")
  /\ \E dry \in BOOLEAN : options' = [dryRun |-> dry]
  /\ prevRun' = [ended |-> IF pc = "crashed" THEN "crashed"
                            ELSE IF rpc = "done" THEN "done" ELSE "none",
                 dryRun |-> options.dryRun,
                 tree |-> treeBefore]
  /\ leftover' = IF pc = "crashed" /\ "create" \in ops
                   THEN getTempFilePath(jsFilePath) ELSE leftover
  /\ call' = "runSourcemapInject"
  /\ pc' = "run"
  /\ rpc' = "readdir"
  /\ jsFilePaths' = <<>>
  /\ jsMapFilePaths' = {}
  /\ index' = 1
  /\ injectedJsFilePaths' = <<>>
  /\ toClean' = {}
  /\ treeBefore' = disk
  /\ runOps' = {}
  /\ thrown' = NoError
  /\ cause' = NoError
  /\ jsFilePath' = JsFile
  /\ sourceMapId' = NoId
  /\ allJsMapFilePaths' = {}
  /\ prev' = NoId
  /\ StartCall
  /\ sourceMapFilePath' = Null
  /\ hash' = <<>>
  /\ offset' = 0
  /\ sha' = <<>>
  /\ returned' = NoId
  /\ chunks' = <<>>
  /\ UNCHANGED <<disk, eol, dirOrder, filters,
                 uploadLocals>>

\* reading the directory fails: the catch block throws
RunReaddirFails ==
  /\ rpc = "readdir"
  /\ \E e \in DirectoryReadErrors :
       /\ cause' = e
       /\ thrown' = throwDirectoryReadErrorDuringInject(e)
  /\ rpc' = "failed"
  /\ UNCHANGED <<disk, eol, call, pc, args, injectLocals, discoverLocals, before,
                 linesRead, ops, log, prev, hashLocals, jsFilePaths,
                 jsMapFilePaths, index, injectedJsFilePaths, toClean, treeBefore,
                 runOps, prevRun, leftover, dirOrder, filters,
                 uploadLocals>>

\* mutant of RunReaddir: the map files are listed with the filters of the user
RunReaddir_filtered ==
  /\ rpc = "readdir"
  /\ jsFilePaths' =
       SelectSeq(dirOrder,
                 LAMBDA f : /\ f \in readdirRecursive(Directory, filters.include,
                                                       filters.exclude, disk)
                            /\ isJsFilePath(f))
  /\ jsMapFilePaths' =
       {f \in readdirRecursive(Directory, filters.include, filters.exclude, disk) :
          isJsMapFilePath(f)}
  /\ log' = log \cup {"info"}
  /\ rpc' = "loop"
  /\ UNCHANGED <<disk, eol, call, pc, args, injectLocals, discoverLocals, before,
                 linesRead, ops, prev, errors, hashLocals, index,
                 injectedJsFilePaths, toClean, treeBefore, runOps, prevRun,
                 leftover, dirOrder, filters, uploadLocals>>

\* both directory listings succeed and are filtered; the JavaScript files
\* come in the order of the directory
RunReaddir ==
  /\ rpc = "readdir"
  /\ jsFilePaths' =
       SelectSeq(dirOrder,
                 LAMBDA f : /\ f \in readdirRecursive(Directory, filters.include,
                                                       filters.exclude, disk)
                            /\ isJsFilePath(f))
  /\ jsMapFilePaths' =
       {f \in readdirRecursive(Directory, DEFAULT_JS_MAP_GLOB_PATTERN, {}, disk) :
          isJsMapFilePath(f)}
  /\ log' = log \cup {"info"}
  /\ rpc' = "loop"
  /\ UNCHANGED <<disk, eol, call, pc, args, injectLocals, discoverLocals, before,
                 linesRead, ops, prev, errors, hashLocals, index,
                 injectedJsFilePaths, toClean, treeBefore, runOps, prevRun,
                 leftover, dirOrder, filters,
                 uploadLocals>>

\* the operations of the call that has just ended, with its file
CallOps == {<<o, jsFilePath>> : o \in ops}

\* the next turn of the loop: discoverJsMapFilePath is called
RunDiscover ==
  /\ rpc = "loop"
  /\ index <= Len(jsFilePaths)
  /\ jsFilePath' = jsFilePaths[index]
  /\ allJsMapFilePaths' = jsMapFilePaths
  /\ call' = "discoverJsMapFilePath"
  /\ pc' = "discover"
  /\ prev' = NoId
  /\ StartCall
  /\ rpc' = "discovering"
  /\ UNCHANGED <<disk, eol, sourceMapId, options, errors, hashLocals,
                 jsFilePaths, jsMapFilePaths, index, injectedJsFilePaths, toClean,
                 treeBefore, runOps, prevRun, leftover, dirOrder, filters,
                 uploadLocals>>

\* no map file was found: log and continue
RunSkip ==
  /\ rpc = "discovering" /\ pc = "done"
  /\ result = Null
  /\ log' = log \cup {"info"}
  /\ index' = index + 1
  /\ runOps' = runOps \cup CallOps \cup {<<"skip", jsFilePath>>}
  /\ rpc' = "loop"
  /\ UNCHANGED <<disk, eol, call, pc, args, injectLocals, discoverLocals, before,
                 linesRead, ops, prev, errors, hashLocals, jsFilePaths,
                 jsMapFilePaths, injectedJsFilePaths, toClean, treeBefore,
                 prevRun, leftover, dirOrder, filters,
                 uploadLocals>>

\* a map file was found: computeSourceMapId is called with it
RunHash ==
  /\ rpc = "discovering" /\ pc = "done"
  /\ result # Null
  /\ sourceMapFilePath' = result
  /\ call' = "computeSourceMapId"
  /\ pc' = "reading"
  /\ hash' = <<>>
  /\ offset' = 0
  /\ sha' = <<>>
  /\ returned' = NoId
  /\ chunks' = <<>>
  /\ runOps' = runOps \cup CallOps
  /\ before' = disk
  /\ ops' = {}
  /\ log' = {}
  /\ rpc' = "hashing"
  /\ UNCHANGED <<disk, eol, args, injectLocals, discoverLocals, linesRead, prev,
                 errors, jsFilePaths, jsMapFilePaths, index, injectedJsFilePaths,
                 toClean, treeBefore, prevRun, leftover, dirOrder, filters,
                 uploadLocals>>

\* mutant of RunInject: the id is computed from the path of the map file
RunInject_path_id ==
  /\ rpc = "hashing" /\ pc = "done"
  /\ sourceMapId' = shaToSourceMapId(Sha256Hex(sourceMapFilePath))
  /\ call' = "injectFile"
  /\ pc' = "inject"
  /\ prev' = NoId
  /\ StartCall
  /\ hash' = <<>>
  /\ offset' = 0
  /\ sha' = <<>>
  /\ returned' = NoId
  /\ chunks' = <<>>
  /\ rpc' = "injecting"
  /\ UNCHANGED <<disk, eol, jsFilePath, options, allJsMapFilePaths, errors,
                 sourceMapFilePath, jsFilePaths, jsMapFilePaths, index,
                 injectedJsFilePaths, toClean, treeBefore, runOps, prevRun,
                 leftover, dirOrder, filters, uploadLocals>>

\* the id is there: injectFile is called with it
RunInject ==
  /\ rpc = "hashing" /\ pc = "done"
  /\ sourceMapId' = returned
  /\ call' = "injectFile"
  /\ pc' = "inject"
  /\ prev' = NoId
  /\ StartCall
  /\ hash' = <<>>
  /\ offset' = 0
  /\ sha' = <<>>
  /\ returned' = NoId
  /\ chunks' = <<>>
  /\ rpc' = "injecting"
  /\ UNCHANGED <<disk, eol, jsFilePath, options, allJsMapFilePaths, errors,
                 sourceMapFilePath, jsFilePaths, jsMapFilePaths, index,
                 injectedJsFilePaths, toClean, treeBefore, runOps, prevRun,
                 leftover, dirOrder, filters,
                 uploadLocals>>

\* injectFile has returned: the file counts as injected
RunPush ==
  /\ rpc = "injecting" /\ pc = "done"
  /\ injectedJsFilePaths' = Append(injectedJsFilePaths, jsFilePath)
  /\ index' = index + 1
  /\ runOps' = runOps \cup CallOps
  /\ rpc' = "loop"
  /\ UNCHANGED <<disk, eol, call, pc, args, injectLocals, discoverLocals, before,
                 linesRead, ops, log, prev, errors, hashLocals, jsFilePaths,
                 jsMapFilePaths, toClean, treeBefore, prevRun, leftover,
                 dirOrder, filters,
                 uploadLocals>>

\* after the loop: cleanupTemporaryFiles lists the directory
RunCleanupList ==
  /\ rpc = "loop"
  /\ index > Len(jsFilePaths)
  /\ toClean' = TemporaryFiles(Directory, disk)
  /\ rpc' = "cleanup"
  /\ UNCHANGED <<disk, eol, call, pc, args, injectLocals, discoverLocals, before,
                 linesRead, ops, log, prev, errors, hashLocals, jsFilePaths,
                 jsMapFilePaths, index, injectedJsFilePaths, treeBefore, runOps,
                 prevRun, leftover, dirOrder, filters,
                 uploadLocals>>

\* cleanupTemporaryFiles removes a listed path that ends with the extension
RunCleanupRm ==
  /\ rpc = "cleanup"
  /\ \E f \in toClean :
       /\ disk' = [disk EXCEPT ![f] = Absent]
       /\ toClean' = toClean \ {f}
       /\ runOps' = runOps \cup {<<"rm", f>>}
  /\ UNCHANGED <<eol, call, pc, args, injectLocals, discoverLocals, before,
                 linesRead, ops, log, prev, errors, hashLocals, rpc, jsFilePaths,
                 jsMapFilePaths, index, injectedJsFilePaths, treeBefore, prevRun,
                 leftover, dirOrder, filters,
                 uploadLocals>>

\* the summary is logged and the run ends
RunFinish ==
  /\ rpc = "cleanup"
  /\ toClean = {}
  /\ log' = log \cup {"info"}
            \cup (IF injectedJsFilePaths = <<>> THEN {"warn"} ELSE {})
  /\ rpc' = "done"
  /\ UNCHANGED <<disk, eol, call, pc, args, injectLocals, discoverLocals, before,
                 linesRead, ops, prev, errors, hashLocals, jsFilePaths,
                 jsMapFilePaths, index, injectedJsFilePaths, toClean, treeBefore,
                 runOps, prevRun, leftover, dirOrder, filters,
                 uploadLocals>>

NextRun ==
  \/ RunCall
  \/ RunReaddirFails
  \/ RunReaddir
  \/ RunDiscover
  \/ DiscoverConvention
  \/ DiscoverRead
  \/ DiscoverResolve
  \/ DiscoverNoDirective
  \/ RunSkip
  \/ RunHash
  \/ HashUpdate
  \/ HashDigest
  \/ RunInject
  \/ InjectDryRun
  \/ InjectRead
  \/ InjectNoWork
  \/ InjectInsert
  \/ InjectWrite
  \/ InjectEnd
  \/ InjectRename
  \/ Interrupt
  \/ RunPush
  \/ RunCleanupList
  \/ RunCleanupRm
  \/ RunFinish

\* runs whose reads of the files succeed (SpecRead has the failures)
SpecRun == InitRun /\ [][NextRun]_vars

\* the filters of a user who targets JavaScript files: only *.js files are
\* included; map files are excluded; d/b.js is excluded
UserFilters ==
  {[include |-> "**/*.js", exclude |-> {}],
   [include |-> "**/*", exclude |-> {"**/*.map"}],
   [include |-> "**/*", exclude |-> {"**/b.js"}]}

InitRunFiltered == InitRunWith(UserFilters)

\* runs with --include or --exclude
SpecRunFiltered == InitRunFiltered /\ [][NextRun]_vars

\* the process is interrupted while runSourcemapInject is not in injectFile:
\* while it lists the directory, looks for a map file, hashes it or cleans up
InterruptRun ==
  /\ rpc \in {"readdir", "loop", "discovering", "hashing", "cleanup"}
  /\ pc \notin {"crashed", "thrown"}
  /\ pc' = "crashed"
  /\ runOps' = runOps \cup CallOps
  /\ UNCHANGED <<disk, eol, call, args, injectLocals, discoverLocals, before,
                 linesRead, ops, log, prev, errors, hashLocals, rpc, jsFilePaths,
                 jsMapFilePaths, index, injectedJsFilePaths, toClean, treeBefore,
                 prevRun, leftover, dirOrder, filters, uploadLocals>>

NextRunCrash ==
  \/ NextRun
  \/ InterruptRun

\* runs that can be interrupted at any point
SpecRunCrash == InitRun /\ [][NextRunCrash]_vars

\* mutant of RunThrows: the error is caught and the loop goes on
RunThrows_continue ==
  /\ rpc \in {"discovering", "hashing", "injecting"}
  /\ pc = "thrown"
  /\ runOps' = runOps \cup CallOps
  /\ index' = index + 1
  /\ rpc' = "loop"
  /\ UNCHANGED <<disk, eol, call, pc, args, injectLocals, discoverLocals, before,
                 linesRead, ops, log, prev, errors, hashLocals, jsFilePaths,
                 jsMapFilePaths, injectedJsFilePaths, toClean, treeBefore,
                 prevRun, leftover, dirOrder, filters,
                 uploadLocals>>

\* a call of the loop has thrown: nothing catches it, the run ends without
\* the cleanup pass and the summary
RunThrows ==
  /\ rpc \in {"discovering", "hashing", "injecting"}
  /\ pc = "thrown"
  /\ runOps' = runOps \cup CallOps
  /\ rpc' = "failed"
  /\ UNCHANGED <<disk, eol, call, pc, args, injectLocals, discoverLocals, before,
                 linesRead, ops, log, prev, errors, hashLocals, jsFilePaths,
                 jsMapFilePaths, index, injectedJsFilePaths, toClean, treeBefore,
                 prevRun, leftover, dirOrder, filters,
                 uploadLocals>>

NextRunFails ==
  \/ NextRun
  \/ DiscoverReadFails
  \/ HashReadFails
  \/ InjectReadFails
  \/ InjectOverwriteFails
  \/ RunThrows

\* runs with the failures of the calls of the loop
SpecRunFails == InitRun /\ [][NextRunFails]_vars

----------------------------------------------------------------------------
(* Properties of runSourcemapInject *)

\* the run has completed successfully
RunCompleted == rpc = "done"

\* the map file of a JavaScript file of the model in the tree the run started
\* with: b.js.map for b.js, and for c.js when its comment names it
ExpectedMap(js) ==
  IF treeBefore[JsMapFile] = Absent THEN Null
  ELSE IF js = JsFile \/ HasDirective(FileLines(treeBefore[js])) THEN JsMapFile
  ELSE Null

\* the snippet that carries the id of the map file
ExpectedSnippet == getCodeSnippet(IdOf(treeBefore[JsMapFile]))

\* the files the run logged as skipped
Skipped == {f \in RunFiles : <<"skip", f>> \in runOps}

\* what the run has done to files so far
Mutations ==
  {o \in runOps \cup CallOps : o[1] \in {"create", "write", "rename", "rm"}}

\* the temporary files in a tree
TempFilesIn(fs) == {f \in RunFiles : endsWith(f, TEMP_FILE_EXTENSION) /\ fs[f] # Absent}

\* C15 as it is stated: after a successful run that is not a dry run, every
\* JavaScript file with a map file has exactly one marker line and that line
\* carries the id of the map file's content, every file without one is as it
\* was, and found = injected + skipped.
C15_OneMarkerPerMatchedFile ==
  (RunCompleted /\ ~options.dryRun) =>
    /\ \A js \in {JsFile, JsFile2} :
         IF ExpectedMap(js) = Null THEN disk[js] = treeBefore[js]
         ELSE LET ls == FileLines(disk[js])
              IN  /\ MarkerCount(ls) = 1
                  /\ \E i \in 1..Len(ls) : ls[i] = ExpectedSnippet
    /\ Len(jsFilePaths) = Len(injectedJsFilePaths) + Cardinality(Skipped)

\* C15, amended: the same for the files that had at most one marker line
\* before the run; a file that had more keeps their number, and its last
\* marker line carries the id.
C15_MarkerOfMatchedFile ==
  (RunCompleted /\ ~options.dryRun) =>
    /\ \A js \in {JsFile, JsFile2} :
         IF ExpectedMap(js) = Null THEN disk[js] = treeBefore[js]
         ELSE LET ls == FileLines(disk[js])
                  n == MarkerCount(FileLines(treeBefore[js]))
                  last == CHOOSE i \in 1..Len(ls) :
                            /\ IsMarkerLine(ls[i])
                            /\ \A j \in (i + 1)..Len(ls) : ~IsMarkerLine(ls[j])
              IN  /\ MarkerCount(ls) = (IF n = 0 THEN 1 ELSE n)
                  /\ ls[last] = ExpectedSnippet
    /\ Len(jsFilePaths) = 2
    /\ Len(jsFilePaths) = Len(injectedJsFilePaths) + Cardinality(Skipped)
    /\ \A f \in {JsFile, JsFile2} :
         f \in Skipped <=> ExpectedMap(f) = Null

\* the example of the claim: c.js has no map file, b.js has b.js.map; two
\* files found, one injected, one skipped
C15_Witness ==
  /\ RunCompleted /\ ~options.dryRun
  /\ treeBefore[JsFile] = <<"x", LF>>
  /\ treeBefore[JsFile2] = <<"x", LF>>
  /\ treeBefore[JsMapFile] = <<"{", "x", "}">>
  /\ disk[JsFile] = <<"x", LF>> \o ExpectedSnippet \o <<LF>>
  /\ disk[JsFile2] = <<"x", LF>>
  /\ injectedJsFilePaths = <<JsFile>>
  /\ Skipped = {JsFile2}

\* C16: when a run has completed successfully, no temporary file is left
\* under the root directory: the cleanup pass has removed every one, also the
\* .<basename>.splunk.tmp files that an interrupted run left behind.
C16_NoTempAfterRun ==
  RunCompleted => TempFilesIn(disk) = {}

\* C17: a run that follows a completed run with the same options writes,
\* renames and removes no file, and leaves the tree as it found it.
C17_SecondRunNoOp ==
  (prevRun.ended = "done" /\ prevRun.dryRun = options.dryRun)
    => /\ disk = treeBefore
       /\ Mutations = {}

\* both runs injected both files, the first by writing them
C17_Witness ==
  /\ prevRun.ended = "done" /\ ~prevRun.dryRun
  /\ RunCompleted /\ ~options.dryRun
  /\ Len(injectedJsFilePaths) = 2
  /\ disk[JsFile] = <<"x", LF>> \o getCodeSnippet(IdOf(<<"{", "y", "}">>)) \o <<LF>>
  /\ MarkerCount(FileLines(disk[JsFile2])) = 1
  /\ disk = treeBefore

\* C18: when a run is interrupted while injectFile writes, before the rename,
\* the JavaScript file is as it was and, in a tree that had no temporary file,
\* at most one temporary file exists; and once a run after it has completed,
\* the temporary file that the interrupted run left behind is gone.
C18_InterruptedRunRecovers ==
  /\ (call = "injectFile" /\ pc = "crashed" /\ "create" \in ops)
       => /\ disk[jsFilePath] = treeBefore[jsFilePath]
          /\ TempFilesIn(treeBefore) = {} => Cardinality(TempFilesIn(disk)) <= 1
  /\ (prevRun.ended = "crashed" /\ leftover # Null /\ RunCompleted)
       => disk[leftover] = Absent

\* C19: when reading the root directory fails with ENOENT, EACCES or ENOTDIR,
\* the run throws a UserFriendlyError with the message for that code and the
\* error as originalError, and any other error is thrown again as it is; no
\* call for a file has been made: nothing was read, hashed, written, created
\* or removed.
C19_DirectoryReadFailure ==
  rpc = "failed" =>
    /\ cause # NoError
    /\ IF cause.isError /\ cause.code \in {"ENOENT", "EACCES", "ENOTDIR"}
         THEN thrown = UserFriendlyError(cause, DirectoryReadMessages[cause.code])
         ELSE thrown = cause
    /\ call = "runSourcemapInject"
    /\ ops = {} /\ runOps = {}
    /\ index = 1 /\ injectedJsFilePaths = <<>>
    /\ disk = treeBefore

\* the path is not a directory, in a run that had a file to inject and a
\* temporary file to remove
C19_Witness ==
  /\ rpc = "failed"
  /\ cause = ErrnoException("ENOTDIR")
  /\ thrown = UserFriendlyError(ErrnoException("ENOTDIR"),
                                "inject: the path is not a directory")
  /\ ~options.dryRun
  /\ disk[JsFile] = <<"x", LF>>
  /\ disk[JsMapFile] = <<"{", "x", "}">>
  /\ disk[OtherTempFile] # Absent

----------------------------------------------------------------------------
(* sourcemaps/wasInjectAlreadyRun.ts *)

DEFAULT_WARN_MESSAGE == "could not verify that the sourceMapId was injected"

\* existsSync(path)
existsSync(fs, filePath) == filePath \in DOMAIN fs /\ fs[filePath] # Absent

\* JSON.parse(contents) for the map files of the model: an object is written
\* between "{" and "}", and its "file" property, if any, comes last
JSON_parse(contents) ==
  IF Len(contents) >= 2 /\ Head(contents) = "{" /\ contents[Len(contents)] = "}"
  THEN [thrown |-> NoError,
        file |-> IF \E k \in 1..Len(contents) : contents[k] = "file:"
                   THEN LET k == CHOOSE k \in 1..Len(contents) : contents[k] = "file:"
                        IN  SubSeq(contents, k + 1, Len(contents) - 1)
                   ELSE Null]
  ELSE [thrown |-> Thrown(TRUE, "SyntaxError", "", "not JSON", <<>>), file |-> Null]

\* discoverJsFilePath: the value it returns, or what it throws, and the files
\* it has read with readFile.  unreadable names the files ("map", "js") that
\* readFile cannot read.
discoverJsFilePath(jsMapFilePath, fs, unreadableFiles) ==
  LET pathWithoutMapExtension ==
        IF endsWith(jsMapFilePath, <<".map">>)
        THEN SubSeq(jsMapFilePath, 1, Len(jsMapFilePath) - 1) ELSE jsMapFilePath
      json == JSON_parse(fs[jsMapFilePath])
  IN  IF existsSync(fs, pathWithoutMapExtension)
        THEN [thrown |-> NoError, value |-> pathWithoutMapExtension, read |-> <<>>]
      ELSE IF ~existsSync(fs, jsMapFilePath)
        THEN [thrown |-> ErrnoException("ENOENT"), value |-> Null,
              read |-> <<jsMapFilePath>>]
      ELSE IF "map" \in unreadableFiles
        THEN [thrown |-> ErrnoException("EACCES"), value |-> Null,
              read |-> <<jsMapFilePath>>]
      ELSE IF json.thrown # NoError
        THEN [thrown |-> json.thrown, value |-> Null, read |-> <<jsMapFilePath>>]
      ELSE IF json.file # Null /\ json.file # <<>>
        THEN [thrown |-> NoError,
              value |-> path_join(dirname(jsMapFilePath), json.file),
              read |-> <<jsMapFilePath>>]
      ELSE [thrown |-> NoError, value |-> Null, read |-> <<jsMapFilePath>>]

\* content.includes('window.sourceMapIds')
isSnippetPresent(content) == \E k \in 1..Len(content) : content[k] = "W"

\* mutant of wasInjectAlreadyRun: without the catch block
wasInjectAlreadyRun_no_catch(jsMapFilePath, fs, unreadableFiles) ==
  LET found == discoverJsFilePath(jsMapFilePath, fs, unreadableFiles)
  IN  IF found.thrown # NoError
        THEN [result |-> FALSE, message |-> "", thrown |-> found.thrown,
              read |-> found.read]
      ELSE IF found.value = Null
        THEN [result |-> FALSE, message |-> DEFAULT_WARN_MESSAGE, thrown |-> NoError,
              read |-> found.read]
      ELSE IF ~existsSync(fs, found.value) \/ "js" \in unreadableFiles
        THEN [result |-> FALSE, message |-> "", thrown |-> ErrnoException("ENOENT"),
              read |-> Append(found.read, found.value)]
      ELSE IF isSnippetPresent(fs[found.value])
        THEN [result |-> TRUE, message |-> "", thrown |-> NoError,
              read |-> Append(found.read, found.value)]
      ELSE [result |-> FALSE, message |-> "no sourceMapId was found",
            thrown |-> NoError, read |-> Append(found.read, found.value)]

\* mutant of wasInjectAlreadyRun: the "file" property of the map is looked at
\* before the naming convention
wasInjectAlreadyRun_file_first(jsMapFilePath, fs, unreadableFiles) ==
  LET json == JSON_parse(fs[jsMapFilePath])
      byFile == json.thrown = NoError /\ json.file # Null /\ json.file # <<>>
                /\ "map" \notin unreadableFiles
      value == IF byFile THEN path_join(dirname(jsMapFilePath), json.file)
               ELSE SubSeq(jsMapFilePath, 1, Len(jsMapFilePath) - 1)
      read == <<jsMapFilePath, value>>
  IN  IF existsSync(fs, value) /\ "js" \notin unreadableFiles
         /\ isSnippetPresent(fs[value])
        THEN [result |-> TRUE, message |-> "", thrown |-> NoError, read |-> read]
      ELSE [result |-> FALSE, message |-> DEFAULT_WARN_MESSAGE, thrown |-> NoError,
            read |-> read]

\* wasInjectAlreadyRun: { result, message }, what it throws (nothing: the
\* body is one try block whose catch block returns), and the files it has
\* read with readFile, in order
wasInjectAlreadyRun(jsMapFilePath, fs, unreadableFiles) ==
  LET found == discoverJsFilePath(jsMapFilePath, fs, unreadableFiles)
      caught(read) == [result |-> FALSE, message |-> DEFAULT_WARN_MESSAGE,
                       thrown |-> NoError, read |-> read]
  IN  IF found.thrown # NoError THEN caught(found.read)
      ELSE IF found.value = Null THEN caught(found.read)
      ELSE IF ~existsSync(fs, found.value) \/ "js" \in unreadableFiles
        THEN caught(Append(found.read, found.value))
      ELSE IF isSnippetPresent(fs[found.value])
        THEN [result |-> TRUE, message |-> "", thrown |-> NoError,
              read |-> Append(found.read, found.value)]
      ELSE [result |-> FALSE, message |-> "no sourceMapId was found",
            thrown |-> NoError, read |-> Append(found.read, found.value)]

----------------------------------------------------------------------------
(* runSourcemapUpload of sourcemaps/index.ts, for a directory that can be read *)

\* d/b.js: none, code only, or injected.  d/b.js.map: {x}.  d/c.js.map: none,
\* an object with or without the "file" property, or no JSON.  d/c.js: none,
\* or code only.
InitUpload ==
  /\ \E b \in {Absent, <<"x", LF>>,
               <<"x", LF>> \o getCodeSnippet(IdOf(<<"{", "x", "}">>)) \o <<LF>>},
        c \in {Absent, <<"{", "file:", "b", ".js", "}">>, <<"{", "x", "}">>, <<"x">>},
        j \in {Absent, <<"y", LF>>} :
       disk = [f \in {JsFile, JsFile2} \cup MapFiles |->
                 IF f = JsFile THEN b ELSE IF f = JsFile2 THEN j
                 ELSE IF f = JsMapFile THEN <<"{", "x", "}">> ELSE c]
  /\ InitCommon
  /\ eol = <<LF>>
  /\ dirOrder = <<>>
  /\ filters = NoFilters

\* the variables of runSourcemapInject that runSourcemapUpload does not use
injectOnly == <<rpc, jsFilePaths, injectedJsFilePaths, toClean, treeBefore,
                runOps, prevRun, leftover, dirOrder, filters>>

\* what uploadFile does: it returns, or it throws an AxiosError with a
\* response of status 413 or another status, with a request only, or with
\* neither
UploadOutcomes == {"uploaded", "413", "response", "request", "not sent"}

\* runSourcemapUpload(options, ctx) is called; the directory is listed and the
\* listing filtered
UploadCall ==
  /\ upc = "idle"
  /\ \E dry \in BOOLEAN : options' = [dryRun |-> dry]
  /\ jsMapFilePaths' \in
       Orders({f \in readdirRecursive(Directory, filters.include, filters.exclude,
                                      disk) : isJsMapFilePath(f)})
  /\ index' = 1
  /\ success' = 0
  /\ failed' = 0
  /\ uploaded' = <<>>
  /\ call' = "runSourcemapUpload"
  /\ pc' = "run"
  /\ log' = {"info"}
  /\ upc' = "loop"
  /\ UNCHANGED <<disk, eol, jsFilePath, sourceMapId, allJsMapFilePaths,
                 injectLocals, discoverLocals, before, linesRead, ops, prev,
                 errors, hashLocals, injectOnly, alreadyInjected, unreadable>>

\* the next turn of the loop: computeSourceMapId is called
UploadHash ==
  /\ upc = "loop"
  /\ index <= Len(jsMapFilePaths)
  /\ sourceMapFilePath' = jsMapFilePaths[index]
  /\ call' = "computeSourceMapId"
  /\ pc' = "reading"
  /\ hash' = <<>>
  /\ offset' = 0
  /\ sha' = <<>>
  /\ returned' = NoId
  /\ chunks' = <<>>
  /\ before' = disk
  /\ ops' = {}
  /\ upc' = "hashing"
  /\ UNCHANGED <<disk, eol, args, injectLocals, discoverLocals, linesRead, log,
                 prev, errors, runLocals, success, failed, alreadyInjected,
                 unreadable, uploaded>>

\* computeSourceMapId has thrown: nothing catches it, the run ends
UploadThrows ==
  /\ upc = "hashing" /\ pc = "thrown"
  /\ upc' = "failed"
  /\ UNCHANGED <<disk, eol, call, pc, args, injectLocals, discoverLocals, before,
                 linesRead, ops, log, prev, errors, hashLocals, runLocals,
                 success, failed, alreadyInjected, unreadable,
                 uploaded>>

\* the id is there: wasInjectAlreadyRun is awaited, and a warning is logged
\* when its result is false
UploadVerify ==
  /\ upc = "hashing" /\ pc = "done"
  /\ sourceMapId' = returned
  /\ \E u \in SUBSET {"map", "js"} :
       LET r == wasInjectAlreadyRun(sourceMapFilePath, disk, u)
       IN  /\ unreadable' = u
           /\ alreadyInjected' = r
           /\ IF r.thrown = NoError
                THEN /\ log' = log \cup (IF r.result THEN {} ELSE {"warn"})
                     /\ upc' = "upload"
                     /\ UNCHANGED thrown
                ELSE /\ thrown' = r.thrown
                     /\ upc' = "failed"
                     /\ UNCHANGED log
  /\ UNCHANGED <<disk, eol, call, pc, jsFilePath, options, allJsMapFilePaths,
                 injectLocals, discoverLocals, before, linesRead, ops, prev,
                 cause, hashLocals, runLocals, success, failed, uploaded>>

\* uploadFileFn is awaited in its try block: success or failed is counted
UploadFile ==
  /\ upc = "upload"
  /\ \E outcome \in UploadOutcomes :
       /\ options.dryRun => outcome = "uploaded"
       /\ success' = IF outcome = "uploaded" THEN success + 1 ELSE success
       /\ failed' = IF outcome = "uploaded" THEN failed ELSE failed + 1
       /\ log' = log \cup (CASE outcome = "uploaded" ->
                                  IF options.dryRun THEN {"info"} ELSE {}
                             [] outcome = "413" -> {"warn"}
                             [] OTHER -> {"error"})
       /\ uploaded' = Append(uploaded, [path |-> sourceMapFilePath,
                                         sourceMapId |-> sourceMapId,
                                         alreadyInjected |-> alreadyInjected.result,
                                         outcome |-> outcome])
  /\ index' = index + 1
  /\ upc' = "loop"
  /\ UNCHANGED <<disk, eol, call, pc, args, injectLocals, discoverLocals, before,
                 linesRead, ops, prev, errors, hashLocals, jsMapFilePaths,
                 injectOnly, alreadyInjected, unreadable>>

\* after the loop: the summary is logged
UploadFinish ==
  /\ upc = "loop"
  /\ index > Len(jsMapFilePaths)
  /\ log' = log \cup (IF options.dryRun THEN {} ELSE {"info"})
            \cup (IF Len(jsMapFilePaths) = 0 THEN {"warn"} ELSE {})
  /\ upc' = "done"
  /\ UNCHANGED <<disk, eol, call, pc, args, injectLocals, discoverLocals, before,
                 linesRead, ops, prev, errors, hashLocals, runLocals, success,
                 failed, alreadyInjected, unreadable, uploaded>>

NextUpload ==
  \/ UploadCall
  \/ UploadHash
  \/ HashUpdate
  \/ HashDigest
  \/ HashReadFails
  \/ UploadThrows
  \/ UploadVerify
  \/ UploadFile
  \/ UploadFinish

SpecUpload == InitUpload /\ [][NextUpload]_vars

----------------------------------------------------------------------------
(* Properties of runSourcemapUpload *)

\* C20: wasInjectAlreadyRun never throws: whatever goes wrong while it looks
\* for the JavaScript file and reads it, it returns result false with a
\* message; and runSourcemapUpload attempts the upload of a map file whatever
\* wasInjectAlreadyRun returned.
C20_VerifierNeverStopsUpload ==
  /\ upc = "failed" => (call = "computeSourceMapId" /\ pc = "thrown")
  /\ upc = "upload" =>
       /\ thrown = NoError
       /\ alreadyInjected.result \in BOOLEAN
       /\ ~alreadyInjected.result => alreadyInjected.message # ""
       /\ (disk[JsFile] = Absent /\ disk[JsFile2] = Absent
           /\ disk[sourceMapFilePath] # <<"{", "file:", "b", ".js", "}">>)
            => /\ ~alreadyInjected.result
               /\ alreadyInjected.message = DEFAULT_WARN_MESSAGE
  /\ upc \in {"loop", "hashing", "done"} =>
       /\ Len(uploaded) = index - 1
       /\ \A k \in 1..Len(uploaded) : uploaded[k].path = jsMapFilePaths[k]
       /\ success + failed = Len(uploaded)

\* both map files were uploaded: c.js.map is not JSON and has no JavaScript
\* file beside it, b.js.map belongs to an injected b.js
C20_Witness ==
  /\ upc = "done"
  /\ ~options.dryRun
  /\ disk[<<"d", "/", "c", ".js", ".map">>] = <<"x">>
  /\ Len(uploaded) = 2
  /\ \E k \in 1..2 :
       /\ uploaded[k].path = <<"d", "/", "c", ".js", ".map">>
       /\ ~uploaded[k].alreadyInjected
       /\ uploaded[k].outcome = "uploaded"
  /\ \E k \in 1..2 :
       /\ uploaded[k].path = JsMapFile
       /\ uploaded[k].alreadyInjected
  /\ success = 2

\* C21: wasInjectAlreadyRun looks for the JavaScript file at the path of the
\* map without ".map" first, and reads the map only when no file is there, to
\* take the "file" property of its JSON, resolved against the directory of
\* the map.  Its result is true exactly when a JavaScript file was located,
\* could be read and holds "window.sourceMapIds"; it is false otherwise.
C21_LocateThenCheckSnippet ==
  upc = "upload" =>
    LET map == sourceMapFilePath
        byConvention == SubSeq(map, 1, Len(map) - 1)
        conventionExists == disk[byConvention] # Absent
        text == disk[map]
        hasFile == /\ "map" \notin unreadable
                   /\ Len(text) > 3 /\ text[1] = "{" /\ text[2] = "file:"
        byFile == <<"d", "/">> \o SubSeq(text, 3, Len(text) - 1)
        located == conventionExists \/ hasFile
        jsFile == IF conventionExists THEN byConvention ELSE byFile
        readable == /\ jsFile \in DOMAIN disk /\ disk[jsFile] # Absent
                    /\ "js" \notin unreadable
    IN  /\ conventionExists => alreadyInjected.read = <<byConvention>>
        /\ ~conventionExists =>
             /\ Head(alreadyInjected.read) = map
             /\ hasFile <=> Len(alreadyInjected.read) = 2
             /\ hasFile => alreadyInjected.read[2] = byFile
        /\ alreadyInjected.result =
             (located /\ readable
              /\ \E k \in 1..Len(disk[jsFile]) : disk[jsFile][k] = "W")
        /\ alreadyInjected.thrown = NoError

\* d/c.js exists and holds no marker, while the "file" property of d/c.js.map
\* names d/b.js, which is injected: the map is not read and the result is
\* false
C21_Witness ==
  /\ upc = "upload"
  /\ sourceMapFilePath = <<"d", "/", "c", ".js", ".map">>
  /\ disk[sourceMapFilePath] = <<"{", "file:", "b", ".js", "}">>
  /\ disk[JsFile2] = <<"y", LF>>
  /\ isSnippetPresent(disk[JsFile])
  /\ unreadable = {}
  /\ alreadyInjected.read = <<JsFile2>>
  /\ ~alreadyInjected.result

\* d/c.js does not exist: the map is read, its "file" property leads to the
\* injected d/b.js and the result is true
C21_WitnessFileProperty ==
  /\ upc = "upload"
  /\ sourceMapFilePath = <<"d", "/", "c", ".js", ".map">>
  /\ disk[JsFile2] = Absent
  /\ alreadyInjected.read = <<sourceMapFilePath, JsFile>>
  /\ alreadyInjected.result

\* C22: in runSourcemapUpload a failure on one map file is caught and counted
\* and the loop goes on: when the run is over, every listed map file has been
\* attempted once, in the order of the listing, and success + failed is the
\* number of map files found.
C22_EveryMapFileAttempted ==
  upc \in {"done", "failed"} =>
    /\ Len(uploaded) = Len(jsMapFilePaths)
    /\ \A k \in 1..Len(uploaded) : uploaded[k].path = jsMapFilePaths[k]
    /\ success + failed = Len(jsMapFilePaths)

\* what holds of the loop: a failure of uploadFile is counted and the loop
\* goes on, so a run that reaches the summary has attempted every map file
C22_UploadFailuresCounted ==
  upc = "done" =>
    /\ Len(uploaded) = Len(jsMapFilePaths)
    /\ \A k \in 1..Len(uploaded) : uploaded[k].path = jsMapFilePaths[k]
    /\ success + failed = Len(jsMapFilePaths)

\* the first of two map files could not be read by computeSourceMapId: the
\* run is over and no upload was attempted
C22_AbortedByUnreadableMap ==
  /\ upc = "failed"
  /\ Len(jsMapFilePaths) = 2
  /\ index = 1
  /\ uploaded = <<>>
  /\ thrown.name = "UserFriendlyError"

----------------------------------------------------------------------------
(* Properties of the failures of injectFile and of runSourcemapInject *)

\* injectFile has thrown from the catch block of its read
ReadFailed == call = "injectFile" /\ pc = "thrown" /\ "read failed" \in ops

\* injectFile has thrown from the catch block of overwriteFileContents
OverwriteFailed == call = "injectFile" /\ pc = "thrown" /\ "overwrite failed" \in ops

ReadMessages == {"JavaScript file no longer exists",
                 "JavaScript file: missing file permissions"}
OverwriteMessages == {"failed to inject: missing permissions"}

\* C27 as it is stated: a failure while reading the JavaScript file is
\* reported with a "cannot read" message, nothing having been written; a
\* failure while writing or renaming the temporary file is reported with the
\* "cannot overwrite" message; neither is reported as the other.
C27_ReadAndOverwriteReported ==
  /\ ReadFailed =>
       /\ thrown.name = "UserFriendlyError" /\ thrown.message \in ReadMessages
       /\ disk = before
  /\ OverwriteFailed =>
       /\ thrown.name = "UserFriendlyError" /\ thrown.message \in OverwriteMessages

\* C27, amended: a read failure with ENOENT or EACCES is reported with the
\* "cannot read" message of that code, an overwrite failure with EACCES with
\* the "cannot overwrite" message, and any other error is thrown again as it
\* is; after a read failure nothing was written and the file is as it was;
\* after an overwrite failure the file is as it was; no read failure carries
\* the overwrite message and no overwrite failure a read message.
C27_KnownCodesReported ==
  /\ ~(ReadFailed /\ OverwriteFailed)
  /\ (call = "injectFile" /\ pc = "thrown") => (ReadFailed \/ OverwriteFailed)
  /\ ReadFailed =>
       /\ IF cause.isError /\ cause.code = "ENOENT"
            THEN thrown = UserFriendlyError(cause, "JavaScript file no longer exists")
          ELSE IF cause.isError /\ cause.code = "EACCES"
            THEN thrown = UserFriendlyError(cause,
                            "JavaScript file: missing file permissions")
          ELSE thrown = cause
       /\ thrown.message \notin OverwriteMessages
       /\ disk = before
       /\ {"create", "write", "rename"} \cap ops = {}
  /\ OverwriteFailed =>
       /\ IF cause.isError /\ cause.code = "EACCES"
            THEN thrown = UserFriendlyError(cause,
                            "failed to inject: missing permissions")
          ELSE thrown = cause
       /\ thrown.message \notin ReadMessages
       /\ "read" \in ops
       /\ disk[jsFilePath] = before[jsFilePath]

\* the rename failed with EACCES after the temporary file was written
C27_Witness ==
  /\ OverwriteFailed
  /\ cause = ErrnoException("EACCES")
  /\ thrown.name = "UserFriendlyError"
  /\ thrown.message = "failed to inject: missing permissions"
  /\ "write" \in ops
  /\ disk[getTempFilePath(jsFilePath)] = Serialize(lines, eol)
  /\ disk[jsFilePath] = before[jsFilePath]

\* the read failed with EACCES on a file that is there
C27_WitnessRead ==
  /\ ReadFailed
  /\ cause = ErrnoException("EACCES")
  /\ thrown.message = "JavaScript file: missing file permissions"
  /\ disk[jsFilePath] # Absent

\* a call made for a JavaScript file of the loop has thrown and the run is
\* over
RunAborted == rpc = "failed" /\ call # "runSourcemapInject"

\* C23: when discoverJsMapFilePath, computeSourceMapId or injectFile throws
\* for the i-th JavaScript file, the run ends with that error: no later file
\* of the listing is read or modified, the files injected before it stay
\* injected, and the run never goes on to another file, to the cleanup pass
\* or to the summary.
C23_ErrorAbortsRun ==
  /\ (rpc \in {"loop", "discovering", "hashing", "injecting", "cleanup", "done"}
        /\ pc # "thrown") => thrown = NoError
  /\ (rpc \in {"loop", "cleanup", "done"}) => pc # "thrown"
  /\ RunAborted =>
       /\ thrown # NoError /\ pc = "thrown"
       /\ index <= Len(jsFilePaths) /\ jsFilePath = jsFilePaths[index]
       /\ \A k \in (index + 1)..Len(jsFilePaths) :
            /\ disk[jsFilePaths[k]] = treeBefore[jsFilePaths[k]]
            /\ \A o \in runOps : o[2] # jsFilePaths[k]
       /\ \A k \in 1..Len(injectedJsFilePaths) :
            /\ injectedJsFilePaths[k] \in {jsFilePaths[j] : j \in 1..(index - 1)}
            /\ ~options.dryRun =>
                 \E i \in 1..Len(FileLines(disk[injectedJsFilePaths[k]])) :
                   FileLines(disk[injectedJsFilePaths[k]])[i] = ExpectedSnippet
       /\ \A o \in runOps : o[1] # "rm"
       /\ toClean = {}

\* d/b.js was injected by this run, then overwriting d/c.js failed: d/b.js
\* keeps its new content and d/c.js is as it was
C23_Witness ==
  /\ RunAborted
  /\ ~options.dryRun
  /\ jsFilePaths = <<JsFile, JsFile2>>
  /\ index = 2
  /\ injectedJsFilePaths = <<JsFile>>
  /\ treeBefore[JsFile] = <<"x", LF>>
  /\ disk[JsFile] = <<"x", LF>> \o ExpectedSnippet \o <<LF>>
  /\ OverwriteFailed
  /\ disk[JsFile2] = treeBefore[JsFile2]

\* the map file of the first JavaScript file could not be read: the second
\* file was never read
C23_WitnessFirstFile ==
  /\ RunAborted
  /\ call = "computeSourceMapId"
  /\ index = 1 /\ Len(jsFilePaths) = 2
  /\ injectedJsFilePaths = <<>>
  /\ disk = treeBefore

----------------------------------------------------------------------------
(* Properties of runSourcemapInject with --include and --exclude *)

\* C24: the map files that runSourcemapInject knows do not depend on the
\* include and exclude filters: every map file under the root is known, and a
\* JavaScript file that the filters select and whose map file exists is
\* injected, also when the filters do not select the map file or exclude it;
\* a JavaScript file that the filters do not select is left as it was.
C24_MapsIndependentOfFilters ==
  /\ rpc \in {"loop", "discovering", "hashing", "injecting", "cleanup", "done"} =>
       jsMapFilePaths = {f \in {JsMapFile} : treeBefore[f] # Absent}
  /\ (RunCompleted /\ ~options.dryRun) =>
       \A js \in {JsFile, JsFile2} :
         LET selected == ~(js = JsFile /\ "**/b.js" \in filters.exclude)
             ls == FileLines(disk[js])
         IN  IF selected /\ ExpectedMap(js) # Null
               THEN /\ \E k \in 1..Len(injectedJsFilePaths) : injectedJsFilePaths[k] = js
                    /\ \E i \in 1..Len(ls) : ls[i] = ExpectedSnippet
             ELSE disk[js] = treeBefore[js]

\* the user excluded every *.map file: d/b.js was still paired with
\* d/b.js.map and injected
C24_Witness ==
  /\ RunCompleted /\ ~options.dryRun
  /\ filters = [include |-> "**/*", exclude |-> {"**/*.map"}]
  /\ jsMapFilePaths = {JsMapFile}
  /\ treeBefore[JsFile] = <<"x", LF>>
  /\ disk[JsFile] = <<"x", LF>> \o ExpectedSnippet \o <<LF>>
  /\ injectedJsFilePaths[1] = JsFile

\* the user included only *.js files: the same
C24_WitnessInclude ==
  /\ RunCompleted /\ ~options.dryRun
  /\ filters = [include |-> "**/*.js", exclude |-> {}]
  /\ jsMapFilePaths = {JsMapFile}
  /\ treeBefore[JsFile] = <<"x", LF>>
  /\ disk[JsFile] = <<"x", LF>> \o ExpectedSnippet \o <<LF>>

----------------------------------------------------------------------------
(* Further properties of runSourcemapInject *)

\* C25: a run with dryRun = true mutates nothing: whatever the tree was, also
\* with temporary files left in it, the files under the root and the content
\* of each are the same after the run as before it.
C25_DryRunNoMutation ==
  (RunCompleted /\ options.dryRun) => disk = treeBefore

\* what holds of a dry run: it creates, writes and renames nothing, and every
\* file that cleanupTemporaryFiles does not list is as it was
C25_DryRunOnlyCleans ==
  (RunCompleted /\ options.dryRun) =>
    /\ \A o \in Mutations : o[1] = "rm" /\ o[2] \in TemporaryFiles(Directory, treeBefore)
    /\ \A f \in RunFiles \ TemporaryFiles(Directory, treeBefore) :
         disk[f] = treeBefore[f]

\* a dry run has removed d/x.splunk.tmp
C25_DryRunRemovedFile ==
  /\ RunCompleted /\ options.dryRun
  /\ treeBefore[OtherTempFile] # Absent
  /\ disk[OtherTempFile] = Absent
  /\ <<"rm", OtherTempFile>> \in runOps
  /\ injectedJsFilePaths # <<>>

----------------------------------------------------------------------------
(* Further properties of injectFile *)

\* the 0-based index of the first and of the last line of ls that P holds of,
\* or -1
FirstIndex(ls, P(_)) ==
  IF \E i \in 1..Len(ls) : P(ls[i])
  THEN (CHOOSE i \in 1..Len(ls) : P(ls[i]) /\ \A j \in 1..(i - 1) : ~P(ls[j])) - 1
  ELSE -1
LastIndex(ls, P(_)) ==
  IF \E i \in 1..Len(ls) : P(ls[i])
  THEN (CHOOSE i \in 1..Len(ls) : P(ls[i]) /\ \A j \in (i + 1)..Len(ls) : ~P(ls[j])) - 1
  ELSE -1

\* injectFile has read the file
Scanned == call = "injectFile" /\ pc \in {"scanned", "writing", "renaming", "done"}
                                /\ "read" \in ops

\* C26 as it is stated: injectFile records the index of the first
\* sourceMappingURL line and of the first marker line; with several
\* sourceMappingURL lines the marker goes right before the first, and with
\* several marker lines the first is compared with the new marker and
\* replaced.
C26_FirstMatchRecorded ==
  /\ Scanned =>
       /\ sourceMappingUrlIndex = FirstIndex(linesRead, IsDirectiveLine)
       /\ existingSnippetIndex = FirstIndex(linesRead, IsMarkerLine)
  /\ (Completed /\ "read" \in ops /\ MarkerCount(linesRead) > 0) =>
       (Wrote <=> linesRead[FirstIndex(linesRead, IsMarkerLine) + 1] # NewSnippet)
  /\ (Completed /\ Wrote) =>
       lines = IF MarkerCount(linesRead) > 0
                 THEN [linesRead EXCEPT ![FirstIndex(linesRead, IsMarkerLine) + 1] =
                                          NewSnippet]
               ELSE IF HasDirective(linesRead)
                 THEN InsertedAt(linesRead, FirstIndex(linesRead, IsDirectiveLine) + 1,
                                 NewSnippet)
               ELSE Append(linesRead, NewSnippet)

\* C26, amended: injectFile records the index of the last sourceMappingURL
\* line and of the last marker line (each matching line overwrites the index);
\* with several sourceMappingURL lines the marker goes right before the last,
\* and with several marker lines the last is compared with the new marker and
\* replaced.
C26_LastMatchRecorded ==
  /\ Scanned =>
       /\ sourceMappingUrlIndex = LastIndex(linesRead, IsDirectiveLine)
       /\ existingSnippetIndex = LastIndex(linesRead, IsMarkerLine)
  /\ (Completed /\ "read" \in ops /\ MarkerCount(linesRead) > 0) =>
       (Wrote <=> linesRead[LastIndex(linesRead, IsMarkerLine) + 1] # NewSnippet)
  /\ (Completed /\ Wrote) =>
       lines = IF MarkerCount(linesRead) > 0
                 THEN [linesRead EXCEPT ![LastIndex(linesRead, IsMarkerLine) + 1] =
                                          NewSnippet]
               ELSE IF HasDirective(linesRead)
                 THEN InsertedAt(linesRead, LastIndex(linesRead, IsDirectiveLine) + 1,
                                 NewSnippet)
               ELSE Append(linesRead, NewSnippet)

\* a file of two sourceMappingURL lines: the marker was written between them
C26_Witness ==
  /\ Completed /\ Wrote
  /\ linesRead = <<(<<"D", "x">>), (<<"D", "x">>)>>
  /\ sourceMappingUrlIndex = 1
  /\ lines = <<(<<"D", "x">>), NewSnippet, (<<"D", "x">>)>>
  /\ disk[JsFile] = Serialize(lines, eol)

\* a file of two marker lines, the first equal to the new marker: the second
\* was compared and replaced
C26_WitnessMarkers ==
  /\ Completed /\ Wrote
  /\ linesRead = <<NewSnippet, (<<"M", "x">>)>>
  /\ existingSnippetIndex = 1
  /\ lines = <<NewSnippet, NewSnippet>>

----------------------------------------------------------------------------
(* Properties of interrupted runs *)

\* the map file of a JavaScript file of the model in a tree
MapIn(js, tree) ==
  IF tree[JsMapFile] = Absent THEN Null
  ELSE IF js = JsFile \/ HasDirective(FileLines(tree[js])) THEN JsMapFile
  ELSE Null

\* the content that one uninterrupted run without dryRun gives a JavaScript
\* file of a tree
UninterruptedResult(js, tree) ==
  IF MapIn(js, tree) = Null THEN tree[js]
  ELSE LET st == ScanLines(readlines(tree[js]), 0, ScanStart)
           snippet == getCodeSnippet(IdOf(tree[JsMapFile]))
       IN  IF st.existingSnippet = snippet THEN tree[js]
           ELSE Serialize(InsertSnippet(st.lines, st.existingSnippetIndex,
                                        st.sourceMappingUrlIndex, snippet), eol)

\* a first run that was not interrupted gives every JavaScript file the
\* content that C28 compares with
C28_UninterruptedRun ==
  (prevRun.ended = "none" /\ RunCompleted /\ ~options.dryRun) =>
    \A js \in {JsFile, JsFile2} : disk[js] = UninterruptedResult(js, treeBefore)

IsTempPath(f) == endsWith(f, TEMP_FILE_EXTENSION)

\* C28: when a run was interrupted at any point, also while it wrote a
\* temporary file, and the run after it has completed, every JavaScript file
\* has the content that one uninterrupted run on the original tree gives it;
\* no temporary file is ever listed as a JavaScript file or as a map file,
\* read as one, or renamed over a JavaScript file by a run that did not
\* write it completely.
C28_CrashRecoveryConverges ==
  /\ (prevRun.ended = "crashed" /\ RunCompleted /\ ~options.dryRun) =>
       \A js \in {JsFile, JsFile2} : disk[js] = UninterruptedResult(js, prevRun.tree)
  /\ \A k \in 1..Len(jsFilePaths) : ~IsTempPath(jsFilePaths[k])
  /\ \A f \in jsMapFilePaths : ~IsTempPath(f)
  /\ rpc \in {"discovering", "hashing", "injecting"} => ~IsTempPath(jsFilePath)
  /\ rpc \in {"hashing", "injecting"} => ~IsTempPath(sourceMapFilePath)
  /\ (rpc = "injecting" /\ pc = "done" /\ "rename" \in ops) =>
       disk[jsFilePath] = Serialize(lines, eol)

\* the first run was interrupted while it wrote the temporary file of d/b.js,
\* the run after it has injected d/b.js
C28_Witness ==
  /\ prevRun.ended = "crashed" /\ RunCompleted /\ ~options.dryRun
  /\ leftover = getTempFilePath(JsFile)
  /\ treeBefore[leftover] \notin {Absent, disk[JsFile]}
  /\ prevRun.tree[JsFile] = <<"x", LF>>
  /\ prevRun.tree[JsMapFile] = <<"{", "y", "}">>
  /\ disk[JsFile] = <<"x", LF>> \o getCodeSnippet(IdOf(<<"{", "y", "}">>)) \o <<LF>>

----------------------------------------------------------------------------
(* "sourcemaps inject" followed by "sourcemaps upload" on the same directory *)

\* the runs of runSourcemapInject, and after a completed one a run of
\* runSourcemapUpload
NextInjectUpload ==
  \/ upc = "idle" /\ NextRun
  \/ rpc = "done" /\ NextUpload

SpecInjectUpload == InitRun /\ [][NextInjectUpload]_vars

\* the id in a line that is the snippet of some id
IdInSnippet(line) == SubSeq(line, 3, Len(line) - 1)

\* C29: the id that runSourcemapInject writes into the marker of a JavaScript
\* file is the id that runSourcemapUpload uses for the map file of that
\* JavaScript file, the map file being the same at both times: both are
\* computeSourceMapId of the map file.
C29_InjectAndUploadAgree ==
  (rpc = "done" /\ upc # "idle") =>
    /\ disk[JsMapFile] = treeBefore[JsMapFile]
    /\ \A k \in 1..Len(uploaded) :
         /\ uploaded[k].path = JsMapFile
         /\ uploaded[k].sourceMapId = IdOf(disk[JsMapFile])
         /\ \A js \in {JsFile, JsFile2} :
              (<<"rename", js>> \in runOps /\ MapIn(js, treeBefore) = uploaded[k].path) =>
                LET ls == FileLines(disk[js])
                    marker == ls[LastIndex(ls, IsMarkerLine) + 1]
                IN  /\ marker = getCodeSnippet(uploaded[k].sourceMapId)
                    /\ IdInSnippet(marker) = uploaded[k].sourceMapId
    /\ (upc = "done" /\ disk[JsMapFile] # Absent) => Len(uploaded) = 1

\* d/b.js was injected by the run, then d/b.js.map was uploaded with the id
\* of the marker, and the check of the upload found the marker
C29_Witness ==
  /\ rpc = "done" /\ upc = "done"
  /\ <<"rename", JsFile>> \in runOps
  /\ Len(uploaded) = 1
  /\ uploaded[1].path = JsMapFile
  /\ uploaded[1].alreadyInjected
  /\ disk[JsFile] = <<"x", LF>> \o getCodeSnippet(uploaded[1].sourceMapId) \o <<LF>>

----------------------------------------------------------------------------
(* The files that runSourcemapInject leaves alone *)

\* C30 as it is stated: a run changes no file other than the JavaScript files
\* for which a map file was resolved, so no map file is written, renamed over
\* or removed and its id is the same during and after any run, complete,
\* failed or interrupted, as before it.
C30_OnlyMatchedJsFilesChange ==
  rpc # "idle" =>
    \A f \in RunFiles :
      disk[f] # treeBefore[f] =>
        f \in {JsFile, JsFile2} /\ MapIn(f, treeBefore) # Null

\* C30, amended: a run changes no file other than the JavaScript files for
\* which a map file was resolved and the files whose name ends with
\* .splunk.tmp (the temporary file it writes, and the ones its cleanup pass
\* removes); no map file is written, renamed over or removed, and the id of
\* every map file is the same during and after any run, complete, failed or
\* interrupted, as before it and as before the run that preceded it.
C30_MapFilesUntouched ==
  rpc # "idle" =>
    /\ \A f \in RunFiles :
         disk[f] # treeBefore[f] =>
           \/ f \in {JsFile, JsFile2} /\ MapIn(f, treeBefore) # Null /\ ~options.dryRun
           \/ IsTempPath(f)
    /\ \A f \in {g \in RunFiles : isJsMapFilePath(g)} :
         /\ disk[f] = treeBefore[f]
         /\ disk[f] = prevRun.tree[f]
         /\ disk[f] # Absent => IdOf(disk[f]) = IdOf(prevRun.tree[f])
         /\ \A o \in Mutations : o[2] # f
         /\ getTempFilePath(jsFilePath) # f

\* overwriting d/c.js failed after d/b.js was injected: d/b.js and the
\* temporary file of d/c.js have changed, d/b.js.map has not
C30_Witness ==
  /\ RunAborted /\ OverwriteFailed
  /\ jsFilePath = JsFile2
  /\ "write" \in ops
  /\ disk[JsFile] # treeBefore[JsFile]
  /\ disk[getTempFilePath(JsFile2)] # treeBefore[getTempFilePath(JsFile2)]
  /\ disk[JsFile2] = treeBefore[JsFile2]
  /\ disk[JsMapFile] = treeBefore[JsMapFile]
  /\ disk[JsMapFile] # Absent

====
